---- MODULE Spec2Model ----
(***************************************************************************)
(* Model of the catalog-synchronization pipeline of woo-product-update:    *)
(* the CSV ingestor (readCSVAndEnqueueJobs), the Bull queue binding        *)
(* (addBatchJob, queueOptions), the queue worker (batchQueue.process       *)
(* handler, retryWithBackoff, processBatch), the reconciler                *)
(* (createNewData, filterCurrentData, isUpdateNeeded, normalizeText), the  *)
(* checkpoint file (saveCheckpoint, getCheckpoint) and the completion      *)
(* check (checkAllFilesProcessed).                                         *)
(***************************************************************************)
EXTENDS Integers, Sequences, FiniteSets, TLC

(***************************************************************************)
(* Bounds of the model.                                                    *)
(***************************************************************************)
MaxRows == 3          \* rows of a feed
MaxFaultyRows == 2    \* longer feeds are explored without failed calls and restarts
MaxFaults == 5        \* failed remote or queue calls in a run
MaxFairRows == 1      \* longest feed of the fair runs
MaxRestarts == 1      \* process restarts in a run

(***************************************************************************)
(* Program constants.                                                      *)
(***************************************************************************)
MAX_RETRIES == 5
MAX_RETRIES_Ingest == 3
RetryWithBackoffRetries == 3
QueueAttempts == 5
Concurrency == 2

Feeds == {"f1"}
Workers == 1..Concurrency
BatchSizes == {1, 2}

(***************************************************************************)
(* JavaScript values.  A string is a sequence of one-character strings;    *)
(* Undefined is the value of a property that an object does not have.      *)
(***************************************************************************)
Undefined == <<"undefined">>
IsString(v) == v # Undefined
Truthy(v) == v # Undefined /\ v # <<>>

WhiteSpace == {" ", "\t", "\n"}

RECURSIVE TrimLeft(_)
TrimLeft(s) ==
    IF s = <<>> THEN <<>>
    ELSE IF Head(s) \in WhiteSpace THEN TrimLeft(Tail(s)) ELSE s

RECURSIVE TrimRight(_)
TrimRight(s) ==
    IF s = <<>> THEN <<>>
    ELSE IF s[Len(s)] \in WhiteSpace THEN TrimRight(SubSeq(s, 1, Len(s) - 1)) ELSE s

Trim(s) == TrimRight(TrimLeft(s))

IsPrefix(p, s) == Len(p) <= Len(s) /\ SubSeq(s, 1, Len(p)) = p

\* String.prototype.replace with a global literal pattern: left to right,
\* non-overlapping.
RECURSIVE ReplaceAll(_, _, _)
ReplaceAll(s, pat, rep) ==
    IF s = <<>> THEN <<>>
    ELSE IF IsPrefix(pat, s)
         THEN rep \o ReplaceAll(SubSeq(s, Len(pat) + 1, Len(s)), pat, rep)
         ELSE <<Head(s)>> \o ReplaceAll(Tail(s), pat, rep)

\* replace(/\s+/g, " ")
RECURSIVE CollapseWhiteSpace(_)
CollapseWhiteSpace(s) ==
    IF s = <<>> THEN <<>>
    ELSE IF Head(s) \in WhiteSpace
         THEN <<" ">> \o CollapseWhiteSpace(TrimLeft(s))
         ELSE <<Head(s)>> \o CollapseWhiteSpace(Tail(s))

\* stripHtml of string-strip-html: a tag is the span from "<" to the next ">".
RECURSIVE DropThroughClose(_)
DropThroughClose(s) ==
    IF s = <<>> THEN <<>>
    ELSE IF Head(s) = ">" THEN Tail(s) ELSE DropThroughClose(Tail(s))

HasClose(s) == \E i \in 1..Len(s) : s[i] = ">"

RECURSIVE stripHtml(_)
stripHtml(s) ==
    IF s = <<>> THEN <<>>
    ELSE IF Head(s) = "<" /\ HasClose(Tail(s))
         THEN stripHtml(DropThroughClose(Tail(s)))
         ELSE <<Head(s)>> \o stripHtml(Tail(s))

\* The one-character strings "u00ac", "u00c6", "u00ae" and "u00b0" stand for the
\* characters U+00AC, U+00C6, U+00AE and U+00B0.
NotSignAE == <<"u00ac", "u00c6">>
RegisteredSign == <<"u00ae">>
DegEntity == <<"&", "d", "e", "g", ";">>
DegSign == <<"u00b0">>

\* Variant of normalizeText that trims before it strips the tags.
normalizeText_TrimFirst(text) ==
    IF ~Truthy(text) THEN <<>>
    ELSE LET normalized == stripHtml(Trim(text))
         IN CollapseWhiteSpace(
                ReplaceAll(ReplaceAll(normalized, NotSignAE, RegisteredSign),
                           DegEntity, DegSign))

normalizeText(text) ==
    IF ~Truthy(text) THEN <<>>
    ELSE LET normalized == Trim(stripHtml(text))
         IN CollapseWhiteSpace(
                ReplaceAll(ReplaceAll(normalized, NotSignAE, RegisteredSign),
                           DegEntity, DegSign))

(***************************************************************************)
(* Reconciler: createNewData, filterCurrentData, isUpdateNeeded.           *)
(* A CSV row (item) is a function from normalized column names to strings; *)
(* a remote product is a record with sku, description and meta_data, a     *)
(* sequence of [key, value] entries.                                       *)
(***************************************************************************)
Field(item, col) == IF col \in DOMAIN item THEN item[col] ELSE Undefined

\* The meta keys emitted by createNewData, with the CSV column of each.
NewDataMeta ==
    << <<"spq", "spq">>,
       <<"manufacturer", "manufacturer">>,
       <<"image_url", "image_url">>,
       <<"datasheet_url", "datasheet_url">>,
       <<"series_url", "series_url">>,
       <<"series", "series">>,
       <<"quantity", "quantity">>,
       <<"operating_temperature", "operating_temp">>,
       <<"voltage", "supply_voltage">>,
       <<"package", "packaging_type">>,
       <<"supplier_device_package", "supplier_device_package">>,
       <<"mounting_type", "mounting_type">>,
       <<"short_description", "product_description">>,
       <<"detail_description", "long_description">>,
       <<"additional_key_information", "additional_info">> >>

createNewData(item, productId, part_number) ==
    [ id |-> productId,
      part_number |-> part_number,
      sku |-> Field(item, "sku"),
      description |-> Field(item, "product_description"),
      meta_data |-> [ i \in 1..Len(NewDataMeta) |->
                        [ key |-> NewDataMeta[i][1],
                          value |-> Field(item, NewDataMeta[i][2]) ] ] ]

\* Variant of CurrentDataKeys without "series".
CurrentDataKeys_NoSeries ==
    { "spq", "manufacturer", "image_url", "datasheet_url", "series_url",
      "quantity", "operating_temperature", "voltage", "package",
      "supplier_device_package", "mounting_type", "short_description",
      "detail_description", "additional_key_information" }

\* Variant of isCurrentMetaMissing that does not look at the new value.
isCurrentMetaMissing_AnyValue(newMetaValue, hasCurrentMeta) == ~hasCurrentMeta

\* The meta keys kept by filterCurrentData.
CurrentDataKeys ==
    { "spq", "manufacturer", "image_url", "datasheet_url", "series_url", "series",
      "quantity", "operating_temperature", "voltage", "package",
      "supplier_device_package", "mounting_type", "short_description",
      "detail_description", "additional_key_information" }

filterCurrentData(product) ==
    [ sku |-> product.sku,
      description |-> product.description,
      meta_data |-> SelectSeq(product.meta_data, LAMBDA meta : meta.key \in CurrentDataKeys) ]

\* Array.prototype.find(meta => meta.key === key): the first entry, or Undefined.
NoMeta == [ key |-> "", value |-> Undefined ]
HasMeta(metas, key) == \E i \in 1..Len(metas) : metas[i].key = key
FindMeta(metas, key) ==
    IF HasMeta(metas, key)
    THEN metas[CHOOSE i \in 1..Len(metas) :
                  /\ metas[i].key = key
                  /\ \A j \in 1..(i - 1) : metas[j].key # key]
    ELSE NoMeta

isCurrentMetaMissing(newMetaValue, hasCurrentMeta) == Truthy(newMetaValue) /\ ~hasCurrentMeta

\* Variant of isMetaValueDifferent that compares with === in place of !==.
isMetaValueDifferent_Equal(newMetaValue, currentMetaValue) ==
    normalizeText(currentMetaValue) = normalizeText(newMetaValue)

isMetaValueDifferent(newMetaValue, currentMetaValue) ==
    normalizeText(currentMetaValue) # normalizeText(newMetaValue)

\* One entry of newData.meta_data marks a field for update.
MetaEntryNeedsUpdate(currentMetas, newMeta) ==
    \/ isCurrentMetaMissing(newMeta.value, HasMeta(currentMetas, newMeta.key))
    \/ isMetaValueDifferent(newMeta.value, FindMeta(currentMetas, newMeta.key).value)

\* A scalar key (sku, description) marks a field for update.
ScalarNeedsUpdate(currentRaw, newRaw) ==
    LET newValue == IF IsString(newRaw) THEN normalizeText(newRaw) ELSE newRaw
        currentValue == IF IsString(newRaw)
                        THEN (IF Truthy(currentRaw) THEN normalizeText(currentRaw) ELSE <<>>)
                        ELSE currentRaw
    IN currentValue = Undefined \/ currentValue # newValue

isUpdateNeeded(currentData, newData) ==
    \/ ScalarNeedsUpdate(currentData.sku, newData.sku)
    \/ ScalarNeedsUpdate(currentData.description, newData.description)
    \/ \E i \in 1..Len(newData.meta_data) :
          MetaEntryNeedsUpdate(currentData.meta_data, newData.meta_data[i])

(***************************************************************************)
(* The remote catalog's effect of products/batch: a property whose value   *)
(* is undefined is dropped by the JSON encoding of the request, so the     *)
(* product keeps its value; a meta entry with a value is set.  What the    *)
(* catalog does with a meta entry that arrives without value is not fixed  *)
(* by this repository: it keeps the entry (keepUnset) or removes it.       *)
(***************************************************************************)
RemoveMeta(metas, key) == SelectSeq(metas, LAMBDA m : m.key # key)

SetMeta(metas, key, value) ==
    IF HasMeta(metas, key)
    THEN [ i \in 1..Len(metas) |->
             IF metas[i].key = key THEN [ key |-> key, value |-> value ] ELSE metas[i] ]
    ELSE Append(metas, [ key |-> key, value |-> value ])

RECURSIVE ApplyMeta(_, _, _)
ApplyMeta(metas, newMetas, keepUnset) ==
    IF newMetas = <<>> THEN metas
    ELSE LET m == Head(newMetas)
             next == IF IsString(m.value) THEN SetMeta(metas, m.key, m.value)
                     ELSE IF keepUnset THEN metas
                     ELSE RemoveMeta(metas, m.key)
         IN ApplyMeta(next, Tail(newMetas), keepUnset)

ApplyUpdate(product, newData, keepUnset) ==
    [ sku |-> IF IsString(newData.sku) THEN newData.sku ELSE product.sku,
      description |-> IF IsString(newData.description) THEN newData.description
                      ELSE product.description,
      meta_data |-> ApplyMeta(product.meta_data, newData.meta_data, keepUnset) ]

(***************************************************************************)
(* Feeds of the pipeline model.  A row carries its CSV cells and what the  *)
(* catalog answers for its part number: found (the search returns a        *)
(* product) and fetchOk (products/<id> returns it).                        *)
(***************************************************************************)
BaseProduct ==
    [ sku |-> <<"a">>,
      description |-> <<"d">>,
      meta_data |-> << [ key |-> "short_description", value |-> <<"d">> ],
                       [ key |-> "_edit_lock", value |-> <<"1">> ] >> ]

ItemSame == [ part_number |-> <<"p">>, sku |-> <<"a">>, product_description |-> <<"d">> ]
ItemDiff == [ part_number |-> <<"p">>, sku |-> <<"b">>, product_description |-> <<"d">> ]
ItemNoPart == [ sku |-> <<"b">>, product_description |-> <<"d">> ]

RowKinds ==
    { [ item |-> ItemSame, found |-> TRUE, fetchOk |-> TRUE ],
      [ item |-> ItemDiff, found |-> TRUE, fetchOk |-> TRUE ],
      [ item |-> ItemNoPart, found |-> TRUE, fetchOk |-> TRUE ],
      [ item |-> ItemDiff, found |-> FALSE, fetchOk |-> TRUE ],
      [ item |-> ItemDiff, found |-> TRUE, fetchOk |-> FALSE ] }

FeedContents == UNION { [1..n -> RowKinds] : n \in 0..MaxRows }

(***************************************************************************)
(* State.                                                                  *)
(***************************************************************************)
VARIABLES
    feedRows,        \* the CSV objects of the latest folder: feed -> rows
    batchSize,       \* BATCH_SIZE
    remote,          \* the catalog: feed -> row -> product
    redis,           \* total-rows, updated-, skipped-, failed-products, lastProcessedRow
    checkpointFile,  \* process_checkpoint.json: feed -> lastProcessedRow (0: no entry)
    queue,           \* Bull: jobId -> job
    ingest,          \* readCSVAndEnqueueJobs of each feed
    workers,         \* the batchQueue.process handlers
    exited,          \* the worker process has called process.exit
    restarts,        \* process restarts so far
    faults,          \* failed remote or queue calls so far
    acted,           \* rows a worker has reconciled
    created,         \* jobId -> number of jobs the queue has created for it
    submitted,       \* feed -> jobs handed to addBatchJob in the current pass
    bulkLog,         \* the payloads sent in products/batch calls
    rec,             \* one row reconciled, updated and reconciled again (SpecRec)
    gate,            \* the Bottleneck limiter: its jobs and the last "failed" event (SpecGate)
    cmp,             \* one comparison of a product with a CSV row (SpecCompare)
    text,            \* one string put through normalizeText twice (SpecText)
    discovery,       \* one run of processCSVFilesInLatestFolder over a bucket (SpecDiscovery)
    ckpt             \* the checkpoint file under concurrent saveCheckpoint calls (SpecCheckpoint)

vars == << feedRows, batchSize, remote, redis, checkpointFile, queue, ingest, workers,
           exited, restarts, faults, acted, created, submitted, bulkLog, rec, gate, cmp,
           text, discovery, ckpt >>

NoKey == -1
JobIds == Feeds \X (1..MaxRows)
NoJobId == << "", 0 >>
NoJob == [ state |-> "none", attemptsMade |-> 0, batch |-> <<>>, totalProductsInFile |-> 0 ]
IdleWorker ==
    [ pc |-> "idle", job |-> NoJobId, lastProcessedRow |-> 0, tries |-> 0, attempts |-> 0,
      filteredProducts |-> <<>> ]
NewIngest ==
    [ pc |-> "start", lastProcessedRow |-> 0, batch |-> <<>>, totalRows |-> 0,
      consecutiveErrors |-> 0 ]

RecIdle ==
    [ phase |-> "idle", item |-> ItemSame, product |-> BaseProduct, first |-> "",
      second |-> "" ]

\* The three places that call limiter.schedule.
GateCalls == { "getProductIdByPartNumber", "getProductById", "processBatch" }
NoFailure == [ message |-> <<>>, retryCount |-> 0, returned |-> <<>> ]
GateJob == [ status |-> "none", retryCount |-> 0, executions |-> 0 ]
GateIdle == [ jobs |-> [ c \in GateCalls |-> GateJob ], failed |-> NoFailure ]

CmpIdle == [ phase |-> "idle" ]
TextIdle == [ phase |-> "idle" ]
DiscoveryIdle == [ phase |-> "idle" ]
CkptIdle == [ phase |-> "idle" ]

Min(a, b) == IF a <= b THEN a ELSE b

\* The environment's budget of failed calls and of restarts.
SmallFeeds == \A f \in Feeds : Len(feedRows[f]) <= MaxFaultyRows
MayFail == SmallFeeds /\ faults < MaxFaults
MayRestart == SmallFeeds /\ restarts < MaxRestarts

Init ==
    /\ feedRows \in [Feeds -> FeedContents]
    /\ batchSize \in BatchSizes
    /\ remote = [ f \in Feeds |-> [ i \in 1..Len(feedRows[f]) |-> BaseProduct ] ]
    /\ redis = [ f \in Feeds |->
                   [ total |-> NoKey, updated |-> 0, skipped |-> 0, failed |-> 0,
                     lastProcessedRow |-> 0 ] ]
    /\ checkpointFile = [ f \in Feeds |-> 0 ]
    /\ queue = [ j \in JobIds |-> NoJob ]
    /\ ingest = [ f \in Feeds |-> NewIngest ]
    /\ workers = [ w \in Workers |-> IdleWorker ]
    /\ exited = FALSE
    /\ restarts = 0
    /\ faults = 0
    /\ acted = {}
    /\ created = [ j \in JobIds |-> 0 ]
    /\ submitted = [ f \in Feeds |-> <<>> ]
    /\ bulkLog = {}
    /\ rec = RecIdle
    /\ gate = GateIdle
    /\ cmp = CmpIdle
    /\ text = TextIdle
    /\ discovery = DiscoveryIdle
    /\ ckpt = CkptIdle

(***************************************************************************)
(* Ingestor: readCSVAndEnqueueJobs, addBatchJob.                           *)
(***************************************************************************)
\* `readCSVAndEnqueueJobs_${key}_${lastProcessedRow}`
JobIdOf(key, lastProcessedRow) == << key, lastProcessedRow >>

\* batchQueue.add with a jobId: Bull creates the job unless a job with that id
\* exists in the queue (waiting, active or failed); a completed job is removed
\* (removeOnComplete) and no longer holds its id.
QueueAdd(q, jobId, jobData) ==
    IF q[jobId].state # "none" THEN q
    ELSE [ q EXCEPT ![jobId] =
             [ state |-> "waiting", attemptsMade |-> 0, batch |-> jobData.batch,
               totalProductsInFile |-> jobData.totalProductsInFile ] ]

JobData(batch, key, totalRows, lastProcessedRow) ==
    [ batch |-> batch, fileKey |-> key, totalProductsInFile |-> totalRows,
      lastProcessedRow |-> lastProcessedRow, batchSize |-> Len(batch) ]

\* Variant of BatchIsFull that lets a batch grow past the batch size.
BatchIsFull_Late(batch, size) == Len(batch) > size

BatchIsFull(batch, size) == Len(batch) >= size

\* initializeFileTracking
initializeFileTracking(r, fileKey, totalRows) ==
    [ r EXCEPT ![fileKey] =
        [ @ EXCEPT !.total = totalRows, !.updated = 0, !.skipped = 0, !.failed = 0 ] ]

\* The body is fetched and split at "\n": rows.length - 1 counts one row more
\* than the feed has when the body ends with a line break.
IngestStart(f) ==
    /\ ingest[f].pc = "start"
    /\ \E trailing \in {0, 1} :
          redis' = initializeFileTracking(redis, f, Len(feedRows[f]) + trailing)
    /\ ingest' = [ ingest EXCEPT ![f] = [ NewIngest EXCEPT !.pc = "count" ] ]
    /\ submitted' = [ submitted EXCEPT ![f] = <<>> ]
    /\ UNCHANGED << discovery, ckpt, rec, gate, cmp, text, feedRows, batchSize, remote, checkpointFile, queue, workers, exited,
                    restarts, faults, acted, created, bulkLog >>

\* Variant of IngestCount that does not store the count.
IngestCount_NotStored(f) ==
    /\ ingest[f].pc = "count"
    /\ ingest' = [ ingest EXCEPT ![f].pc = "rows", ![f].totalRows = Len(feedRows[f]) ]
    /\ UNCHANGED << discovery, ckpt, rec, gate, cmp, text, feedRows, batchSize, remote, redis,
                    checkpointFile, queue, workers, exited, restarts, faults, acted,
                    created, submitted, bulkLog >>

\* First pass: count the parsed rows and store the count.
IngestCount(f) ==
    /\ ingest[f].pc = "count"
    /\ redis' = [ redis EXCEPT ![f].total = Len(feedRows[f]) ]
    /\ ingest' = [ ingest EXCEPT ![f].pc = "rows", ![f].totalRows = Len(feedRows[f]) ]
    /\ UNCHANGED << discovery, ckpt, rec, gate, cmp, text, feedRows, batchSize, remote, checkpointFile, queue, workers, exited,
                    restarts, faults, acted, created, submitted, bulkLog >>

\* addBatchJob inside its try/catch: the job is handed to the queue; when the
\* queue rejects the call the error is logged and the ingest goes on.
Enqueue(f, batch, lastProcessedRow, accepted) ==
    LET jobId == JobIdOf(f, lastProcessedRow)
        jobData == JobData(batch, f, ingest[f].totalRows, lastProcessedRow)
    IN /\ submitted' = [ submitted EXCEPT ![f] = Append(@, jobData) ]
       /\ IF accepted
          THEN /\ queue' = QueueAdd(queue, jobId, jobData)
               /\ created' = [ created EXCEPT ![jobId] =
                                 IF queue[jobId].state = "none" THEN @ + 1 ELSE @ ]
               /\ faults' = faults
          ELSE /\ MayFail
               /\ faults' = faults + 1
               /\ UNCHANGED << queue, created >>

\* Second pass, one row: push it; enqueue the batch when it is full.
IngestRow(f) ==
    /\ ingest[f].pc = "rows"
    /\ ingest[f].lastProcessedRow < Len(feedRows[f])
    /\ LET lastProcessedRow == ingest[f].lastProcessedRow + 1
           batch == Append(ingest[f].batch, lastProcessedRow)
       IN IF BatchIsFull(batch, batchSize)
          THEN /\ \E accepted \in BOOLEAN : Enqueue(f, batch, lastProcessedRow, accepted)
               /\ ingest' = [ ingest EXCEPT ![f].lastProcessedRow = lastProcessedRow,
                                            ![f].batch = <<>>,
                                            ![f].consecutiveErrors = 0 ]
          ELSE /\ ingest' = [ ingest EXCEPT ![f].lastProcessedRow = lastProcessedRow,
                                            ![f].batch = batch ]
               /\ UNCHANGED << queue, created, faults, submitted >>
    /\ UNCHANGED << discovery, ckpt, rec, gate, cmp, text, feedRows, batchSize, remote, redis, checkpointFile, workers, exited,
                    restarts, acted, bulkLog >>

\* Second pass, one row whose processing throws before the row is pushed:
\* the catch counts the error and rethrows at MAX_RETRIES (3) of them, which
\* ends the stream without the final batch.
IngestRowThrows(f) ==
    /\ ingest[f].pc = "rows"
    /\ ingest[f].lastProcessedRow < Len(feedRows[f])
    /\ LET consecutiveErrors == ingest[f].consecutiveErrors + 1
       IN ingest' = [ ingest EXCEPT
                        ![f].lastProcessedRow = @ + 1,
                        ![f].consecutiveErrors = consecutiveErrors,
                        ![f].pc = IF consecutiveErrors >= MAX_RETRIES_Ingest
                                  THEN "aborted" ELSE @ ]
    /\ UNCHANGED << discovery, ckpt, rec, gate, cmp, text, feedRows, batchSize, remote, redis,
                    checkpointFile, queue, workers, exited, restarts, faults, acted,
                    created, submitted, bulkLog >>

\* End of the stream: enqueue the remaining rows as the final batch.
IngestEnd(f) ==
    /\ ingest[f].pc = "rows"
    /\ ingest[f].lastProcessedRow = Len(feedRows[f])
    /\ IF Len(ingest[f].batch) > 0
       THEN \E accepted \in BOOLEAN :
               Enqueue(f, ingest[f].batch, ingest[f].lastProcessedRow, accepted)
       ELSE UNCHANGED << queue, created, faults, submitted >>
    /\ ingest' = [ ingest EXCEPT ![f].pc = "done", ![f].batch = <<>> ]
    /\ UNCHANGED << discovery, ckpt, rec, gate, cmp, text, feedRows, batchSize, remote, redis, checkpointFile, workers, exited,
                    restarts, acted, bulkLog >>

(***************************************************************************)
(* Checkpoint file: saveCheckpoint, getCheckpoint.                         *)
(***************************************************************************)
getCheckpoint(file, fileKey) == file[fileKey]

\* Variant of saveCheckpoint without the check of the batch and without the
\* limit of the total.
saveCheckpoint_Unchecked(file, fileKey, lastProcessedRow, totalProductsInFile, batchLength) ==
    [ file EXCEPT ![fileKey] = lastProcessedRow + batchLength ]

saveCheckpoint(file, fileKey, lastProcessedRow, totalProductsInFile, batchLength) ==
    IF batchLength = 0 THEN file
    ELSE LET updatedLastProcessedRow ==
                 Min(lastProcessedRow + batchLength, totalProductsInFile)
         IN IF updatedLastProcessedRow <= totalProductsInFile
            THEN [ file EXCEPT ![fileKey] = updatedLastProcessedRow ]
            ELSE file

(***************************************************************************)
(* Worker: the batchQueue.process handler, retryWithBackoff, processBatch. *)
(***************************************************************************)
\* The handler throws: Bull counts the attempt and retries the job until its
\* attempts are used up, then keeps it as failed (removeOnFail: false).
JobThrows(q, jobId) ==
    [ q EXCEPT ![jobId] =
        [ @ EXCEPT !.attemptsMade = @ + 1,
                   !.state = IF q[jobId].attemptsMade + 1 >= QueueAttempts
                             THEN "failed" ELSE "waiting" ] ]

\* The handler returns: the job is completed and removed (removeOnComplete).
JobCompletes(q, jobId) == [ q EXCEPT ![jobId] = NoJob ]

ValidJobData(job, fileKey) ==
    /\ fileKey # ""
    /\ job.totalProductsInFile # 0

\* The handler starts: it validates the job and reads the checkpoint of the feed.
Dequeue(w, jobId) ==
    /\ ~exited
    /\ workers[w].pc = "idle"
    /\ \A v \in Workers : v < w => workers[v].pc # "idle"
    /\ queue[jobId].state = "waiting"
    /\ IF ValidJobData(queue[jobId], jobId[1])
       THEN /\ queue' = [ queue EXCEPT ![jobId].state = "active" ]
            /\ workers' = [ workers EXCEPT ![w] =
                  [ IdleWorker EXCEPT !.pc = "rows", !.job = jobId,
                       !.lastProcessedRow = getCheckpoint(checkpointFile, jobId[1]) ] ]
       ELSE /\ queue' = JobThrows(queue, jobId)
            /\ UNCHANGED workers
    /\ UNCHANGED << discovery, ckpt, rec, gate, cmp, text, feedRows, batchSize, remote, redis, checkpointFile, ingest, exited,
                    restarts, faults, acted, created, submitted, bulkLog >>

\* The body of the per-row map of processBatch for a row within the total:
\* a row without part number returns null; a part number the catalog does not
\* find counts one failed product; a fetch that fails makes getProductById
\* return null, and filterCurrentData(null) throws into the row's catch; a row
\* that needs no update counts one skipped product.
Reconcile(item, found, fetchOk, product, productId) ==
    LET part_number == Field(item, "part_number")
    IN IF ~Truthy(part_number) THEN "no_part_number"
       ELSE IF ~found THEN "not_found"
       ELSE IF ~fetchOk THEN "fetch_failed"
       ELSE IF isUpdateNeeded(filterCurrentData(product),
                              createNewData(item, productId, part_number))
            THEN "update"
       ELSE "no_change"

\* The outcome of one row in the per-row map of processBatch.
RowOutcome(fileKey, row, currentIndex, totalProductsInFile) ==
    LET r == feedRows[fileKey][row]
    IN IF currentIndex >= totalProductsInFile THEN "beyond_total"
       ELSE Reconcile(r.item, r.found, r.fetchOk, remote[fileKey][row], << fileKey, row >>)

\* The outcomes of the rows that fail on their own.
RowFailures == { "no_part_number", "not_found", "fetch_failed" }

\* Variant of Outcomes in which a row that fails takes the updates of the
\* other rows of the batch with it.
Outcomes_Abort(fileKey, batch, startIndex, totalProductsInFile) ==
    LET each == [ i \in 1..Len(batch) |->
                    RowOutcome(fileKey, batch[i], startIndex + (i - 1),
                               totalProductsInFile) ]
    IN IF \E i \in 1..Len(batch) : each[i] \in RowFailures
       THEN [ i \in 1..Len(batch) |->
                IF each[i] = "update" THEN "no_change" ELSE each[i] ]
       ELSE each

Outcomes(fileKey, batch, startIndex, totalProductsInFile) ==
    [ i \in 1..Len(batch) |->
        RowOutcome(fileKey, batch[i], startIndex + (i - 1), totalProductsInFile) ]

CountOf(outcomes, kind) == Cardinality({ i \in 1..Len(outcomes) : outcomes[i] = kind })

\* Variant of FilteredProducts that collects the rows in the order in which
\* they could resolve, the last row first.
RECURSIVE FilteredProducts_Resolved(_, _, _)
FilteredProducts_Resolved(fileKey, batch, outcomes) ==
    IF batch = <<>> THEN <<>>
    ELSE LET row == Head(batch)
             rest == FilteredProducts_Resolved(fileKey, Tail(batch), Tail(outcomes))
         IN IF Head(outcomes) = "update"
            THEN rest \o << [ row |-> row,
                              currentData |-> filterCurrentData(remote[fileKey][row]),
                              newData |-> createNewData(feedRows[fileKey][row].item,
                                                        << fileKey, row >>,
                                                        Field(feedRows[fileKey][row].item,
                                                              "part_number")) ] >>
            ELSE rest

\* productsToUpdate.filter(Boolean): the rows that need an update, in batch order.
RECURSIVE FilteredProducts(_, _, _)
FilteredProducts(fileKey, batch, outcomes) ==
    IF batch = <<>> THEN <<>>
    ELSE LET row == Head(batch)
             rest == FilteredProducts(fileKey, Tail(batch), Tail(outcomes))
         IN IF Head(outcomes) = "update"
            THEN << [ row |-> row,
                      currentData |-> filterCurrentData(remote[fileKey][row]),
                      newData |-> createNewData(feedRows[fileKey][row].item,
                                                << fileKey, row >>,
                                                Field(feedRows[fileKey][row].item,
                                                      "part_number")) ] >> \o rest
            ELSE rest

\* processBatch up to the bulk update: reconcile every row of the batch.
ProcessRows(w) ==
    /\ ~exited
    /\ workers[w].pc = "rows"
    /\ LET jobId == workers[w].job
           f == jobId[1]
           job == queue[jobId]
       IN \E outcomes \in { Outcomes(f, job.batch, workers[w].lastProcessedRow,
                                     job.totalProductsInFile) } :
          \E filtered \in { FilteredProducts(f, job.batch, outcomes) } :
          /\ redis' = [ redis EXCEPT
                          ![f].failed = @ + CountOf(outcomes, "not_found"),
                          ![f].skipped = @ + CountOf(outcomes, "no_change") ]
          /\ acted' = acted \cup { << f, job.batch[i] >> :
                                     i \in { k \in 1..Len(job.batch) :
                                               outcomes[k] # "beyond_total" } }
          /\ workers' = [ workers EXCEPT ![w].filteredProducts = filtered,
                                         ![w].attempts = 0,
                                         ![w].pc = IF Len(filtered) > 0 THEN "bulk"
                                                   ELSE "commit" ]
    /\ UNCHANGED << discovery, ckpt, rec, gate, cmp, text, feedRows, batchSize, remote, checkpointFile, queue, ingest, exited,
                    restarts, faults, created, submitted, bulkLog >>

\* The catalog after a successful products/batch call.
RemoteAfterUpdate(rem, fileKey, filtered, keepUnset) ==
    [ rem EXCEPT ![fileKey] =
        [ i \in DOMAIN rem[fileKey] |->
            IF \E k \in 1..Len(filtered) : filtered[k].row = i
            THEN ApplyUpdate(rem[fileKey][i],
                             filtered[CHOOSE k \in 1..Len(filtered) :
                                         filtered[k].row = i].newData,
                             keepUnset)
            ELSE rem[fileKey][i] ] ]

\* `${fileKey}-${action}-row-${rowIndex}-retry-${retryCount}`
createUniqueJobId(fileKey, action, rowIndex, retryCount) ==
    << fileKey, action, "row", rowIndex, "retry", retryCount >>

\* The id under which a worker in the bulk update loop schedules its
\* products/batch call: the start index is the checkpoint the handler read.
BulkTaskId(w) ==
    createUniqueJobId(workers[w].job[1], "processBatch", workers[w].lastProcessedRow,
                      workers[w].attempts)

\* One attempt of the bulk update loop succeeds.
BulkUpdateOk(w) ==
    /\ ~exited
    /\ workers[w].pc = "bulk"
    /\ LET f == workers[w].job[1]
           filtered == workers[w].filteredProducts
       IN /\ \E keepUnset \in BOOLEAN :
                remote' = RemoteAfterUpdate(remote, f, filtered, keepUnset)
          /\ redis' = [ redis EXCEPT ![f].updated = @ + Len(filtered) ]
          /\ bulkLog' = bulkLog \cup
                { [ currentData |-> filtered[k].currentData,
                    newData |-> filtered[k].newData ] : k \in 1..Len(filtered) }
          /\ workers' = [ workers EXCEPT ![w].pc = "commit" ]
    /\ UNCHANGED << discovery, ckpt, rec, gate, cmp, text, feedRows, batchSize, checkpointFile, queue, ingest, exited,
                    restarts, faults, acted, created, submitted >>

\* Variant of RetryLoopExhausted that never gives up.
RetryLoopExhausted_Never(attempts) == FALSE

\* processBatch: attempts >= MAX_RETRIES in the catch of the bulk update loop.
RetryLoopExhausted(attempts) == attempts >= MAX_RETRIES

\* One attempt of the bulk update loop fails.  After MAX_RETRIES failed attempts
\* processBatch counts one failed product and throws; retryWithBackoff runs
\* processBatch again until its retries are used up, then the handler throws.
BulkUpdateThrows(w) ==
    /\ ~exited
    /\ workers[w].pc = "bulk"
    /\ faults' = faults + 1
    /\ LET jobId == workers[w].job
           f == jobId[1]
           attempts == workers[w].attempts + 1
           tries == workers[w].tries + 1
       IN IF ~RetryLoopExhausted(attempts)
          THEN /\ workers' = [ workers EXCEPT ![w].attempts = attempts ]
               /\ UNCHANGED << redis, queue >>
          ELSE /\ redis' = [ redis EXCEPT ![f].failed = @ + 1 ]
               /\ IF tries < RetryWithBackoffRetries
                  THEN /\ workers' = [ workers EXCEPT ![w].pc = "rows",
                                                      ![w].tries = tries,
                                                      ![w].attempts = attempts ]
                       /\ UNCHANGED queue
                  ELSE /\ workers' = [ workers EXCEPT ![w] = IdleWorker ]
                       /\ queue' = JobThrows(queue, jobId)
    /\ UNCHANGED << discovery, ckpt, rec, gate, cmp, text, feedRows, batchSize, remote, checkpointFile, ingest, exited,
                    restarts, acted, created, submitted, bulkLog >>

\* A failed attempt within the budget of failed calls.
BulkUpdateFails(w) == MayFail /\ BulkUpdateThrows(w)

\* processBatch has returned: store the checkpoint and complete the job.
Commit(w) ==
    /\ ~exited
    /\ workers[w].pc = "commit"
    /\ LET jobId == workers[w].job
           f == jobId[1]
           job == queue[jobId]
           updatedLastProcessedRow == workers[w].lastProcessedRow + Len(job.batch)
       IN /\ redis' = [ redis EXCEPT ![f].lastProcessedRow = updatedLastProcessedRow ]
          /\ checkpointFile' = saveCheckpoint(checkpointFile, f, updatedLastProcessedRow,
                                              job.totalProductsInFile, Len(job.batch))
          /\ queue' = JobCompletes(queue, jobId)
    /\ workers' = [ workers EXCEPT ![w] = IdleWorker ]
    /\ UNCHANGED << discovery, ckpt, rec, gate, cmp, text, feedRows, batchSize, remote, ingest, exited, restarts, faults, acted,
                    created, submitted, bulkLog >>

(***************************************************************************)
(* Supervisor: the completion check and process restarts.                  *)
(***************************************************************************)
Counted(f) == redis[f].updated + redis[f].failed + redis[f].skipped

\* checkAllFilesProcessed: every total-rows:* key is matched by its counters.
checkAllFilesProcessed ==
    \A f \in { k \in Feeds : redis[k].total # NoKey } : ~(Counted(f) < redis[f].total)

\* shutdownCheckInterval finds all files processed and exits the process.
CompletionCheck ==
    /\ ~exited
    /\ checkAllFilesProcessed
    /\ exited' = TRUE
    /\ UNCHANGED << discovery, ckpt, rec, gate, cmp, text, feedRows, batchSize, remote, redis, checkpointFile, queue, ingest,
                    workers, restarts, faults, acted, created, submitted, bulkLog >>

\* The worker process ends (process.exit, a signal or a crash) and is started
\* again: its handlers are gone and Bull hands their stalled jobs out again.
WorkerRestart ==
    /\ MayRestart
    /\ restarts' = restarts + 1
    /\ exited' = FALSE
    /\ workers' = [ w \in Workers |-> IdleWorker ]
    /\ queue' = [ j \in JobIds |->
                    IF queue[j].state = "active"
                    THEN [ queue[j] EXCEPT !.state = "waiting" ] ELSE queue[j] ]
    /\ UNCHANGED << discovery, ckpt, rec, gate, cmp, text, feedRows, batchSize, remote, redis, checkpointFile, ingest, faults,
                    acted, created, submitted, bulkLog >>

\* The ingest process is run again on the same folder.
IngestRestart ==
    /\ MayRestart
    /\ restarts' = restarts + 1
    /\ ingest' = [ f \in Feeds |-> NewIngest ]
    /\ submitted' = [ f \in Feeds |-> <<>> ]
    /\ UNCHANGED << discovery, ckpt, rec, gate, cmp, text, feedRows, batchSize, remote, redis, checkpointFile, queue, workers,
                    exited, faults, acted, created, bulkLog >>

Next ==
    \/ \E f \in Feeds : IngestStart(f)
    \/ \E f \in Feeds : IngestCount(f)
    \/ \E f \in Feeds : IngestRow(f)
    \/ \E f \in Feeds : IngestEnd(f)
    \/ \E w \in Workers, j \in JobIds : Dequeue(w, j)
    \/ \E w \in Workers : ProcessRows(w)
    \/ \E w \in Workers : BulkUpdateOk(w)
    \/ \E w \in Workers : BulkUpdateFails(w)
    \/ \E w \in Workers : Commit(w)
    \/ CompletionCheck
    \/ WorkerRestart
    \/ IngestRestart

Spec == Init /\ [][Next]_vars

\* The steps of the program itself: every step but a failed bulk update and a
\* restart, which are the environment's.
ProgramStep ==
    \/ \E f \in Feeds : IngestStart(f) \/ IngestCount(f) \/ IngestRow(f) \/ IngestEnd(f)
    \/ \E w \in Workers : \/ \E j \in JobIds : Dequeue(w, j)
                          \/ ProcessRows(w) \/ BulkUpdateOk(w) \/ Commit(w)
    \/ CompletionCheck

\* The event loop runs every pending continuation and timer: while a step of
\* the program is possible, one is eventually taken.  No step of the program
\* undoes another, so a run that takes no step any more has none left.
\* The fair runs start from the feeds of at most MaxFairRows rows.
FairInit == Init /\ \A f \in Feeds : Len(feedRows[f]) <= MaxFairRows

FairSpec == FairInit /\ [][Next]_vars /\ WF_vars(ProgramStep)

(***************************************************************************)
(* The reconciler on one row: processBatch reconciles the row, the bulk    *)
(* update succeeds, the process stops before the checkpoint is stored, and *)
(* the redelivered job reconciles the row again.                           *)
(***************************************************************************)
SkuCells == { <<>>, <<"a">>, <<"b">> }
DescriptionCells == { <<>>, <<"d">>, <<" ", "e">> }
SpqCells == { <<>>, <<"5">> }

\* The rows with and without the column col.
WithColumn(items, col, cells) ==
    items \cup { item @@ (col :> v) : item \in items, v \in cells }

RecItems ==
    WithColumn(WithColumn(WithColumn({ [ part_number |-> <<"p">> ] },
                                     "sku", SkuCells),
                          "product_description", DescriptionCells),
               "spq", SpqCells)

RecProducts ==
    [ sku : { <<>>, <<"a">> },
      description : { <<"d">> },
      meta_data : { <<>>,
                    BaseProduct.meta_data,
                    << [ key |-> "spq", value |-> <<"5">> ] >>,
                    << [ key |-> "spq", value |-> <<"7">> ],
                       [ key |-> "_edit_lock", value |-> <<"1">> ] >> } ]

RecProductId == << "f1", 1 >>

InitRec ==
    /\ feedRows = [ f \in Feeds |-> <<>> ]
    /\ batchSize = 1
    /\ remote = [ f \in Feeds |-> <<>> ]
    /\ redis = [ f \in Feeds |->
                   [ total |-> NoKey, updated |-> 0, skipped |-> 0, failed |-> 0,
                     lastProcessedRow |-> 0 ] ]
    /\ checkpointFile = [ f \in Feeds |-> 0 ]
    /\ queue = [ j \in JobIds |-> NoJob ]
    /\ ingest = [ f \in Feeds |-> NewIngest ]
    /\ workers = [ w \in Workers |-> IdleWorker ]
    /\ exited = FALSE
    /\ restarts = 0
    /\ faults = 0
    /\ acted = {}
    /\ created = [ j \in JobIds |-> 0 ]
    /\ submitted = [ f \in Feeds |-> <<>> ]
    /\ bulkLog = {}
    /\ rec \in [ phase : { "idle" }, item : RecItems, product : RecProducts,
                  first : { "" }, second : { "" } ]
    /\ gate = GateIdle
    /\ cmp = CmpIdle
    /\ text = TextIdle
    /\ discovery = DiscoveryIdle
    /\ ckpt = CkptIdle

RecUnchanged ==
    UNCHANGED << discovery, ckpt, gate, cmp, text, feedRows, batchSize, remote, redis, checkpointFile, queue, ingest,
                 workers, exited, restarts, faults, acted, created, submitted, bulkLog >>

\* The row's first pass through the per-row map of processBatch.
RecReconcile ==
    /\ rec.phase = "idle"
    /\ rec' = [ rec EXCEPT !.phase = "reconciled",
                           !.first = Reconcile(rec.item, TRUE, TRUE, rec.product,
                                               RecProductId) ]
    /\ RecUnchanged

\* The bulk update of the row succeeds; the checkpoint is not stored.
RecBulkUpdate ==
    /\ rec.phase = "reconciled"
    /\ rec.first = "update"
    /\ \E keepUnset \in BOOLEAN :
          rec' = [ rec EXCEPT
                     !.phase = "updated",
                     !.product = ApplyUpdate(rec.product,
                                             createNewData(rec.item, RecProductId,
                                                           Field(rec.item, "part_number")),
                                             keepUnset) ]
    /\ RecUnchanged

\* The redelivered job reconciles the row against the updated product.
RecReplay ==
    /\ rec.phase = "updated"
    /\ rec' = [ rec EXCEPT !.phase = "replayed",
                           !.second = Reconcile(rec.item, TRUE, TRUE, rec.product,
                                                RecProductId) ]
    /\ RecUnchanged

NextRec == RecReconcile \/ RecBulkUpdate \/ RecReplay

SpecRec == InitRec /\ [][NextRec]_vars

(***************************************************************************)
(* The retries of the worker and of the queue, run to their end: the bulk  *)
(* endpoint of the catalog is down, so every bulk update fails, and the    *)
(* queue may hold a job that another producer added without               *)
(* totalProductsInFile.                                                    *)
(***************************************************************************)
RowSame == [ item |-> ItemSame, found |-> TRUE, fetchOk |-> TRUE ]
RowDiff == [ item |-> ItemDiff, found |-> TRUE, fetchOk |-> TRUE ]

\* A job whose data lacks totalProductsInFile, under an id no feed row uses.
MalformedJobId == << "f1", MaxRows >>
MalformedJob == [ NoJob EXCEPT !.state = "waiting" ]

RetryCases ==
    { [ rows |-> << RowDiff >>, malformed |-> FALSE ],
      [ rows |-> << RowDiff, RowSame >>, malformed |-> FALSE ],
      [ rows |-> << RowSame >>, malformed |-> TRUE ] }

InitRetries ==
    /\ \E c \in RetryCases :
          /\ feedRows = [ f \in Feeds |-> c.rows ]
          /\ queue = [ j \in JobIds |->
                         IF c.malformed /\ j = MalformedJobId THEN MalformedJob
                         ELSE NoJob ]
    /\ batchSize \in BatchSizes
    /\ remote = [ f \in Feeds |-> [ i \in 1..Len(feedRows[f]) |-> BaseProduct ] ]
    /\ redis = [ f \in Feeds |->
                   [ total |-> NoKey, updated |-> 0, skipped |-> 0, failed |-> 0,
                     lastProcessedRow |-> 0 ] ]
    /\ checkpointFile = [ f \in Feeds |-> 0 ]
    /\ ingest = [ f \in Feeds |-> NewIngest ]
    /\ workers = [ w \in Workers |-> IdleWorker ]
    /\ exited = FALSE
    /\ restarts = 0
    /\ faults = 0
    /\ acted = {}
    /\ created = [ j \in JobIds |-> 0 ]
    /\ submitted = [ f \in Feeds |-> <<>> ]
    /\ bulkLog = {}
    /\ rec = RecIdle
    /\ gate = GateIdle
    /\ cmp = CmpIdle
    /\ text = TextIdle
    /\ discovery = DiscoveryIdle
    /\ ckpt = CkptIdle

NextRetries ==
    \/ \E f \in Feeds : IngestStart(f)
    \/ \E f \in Feeds : IngestCount(f)
    \/ \E f \in Feeds : IngestRow(f)
    \/ \E f \in Feeds : IngestEnd(f)
    \/ \E w \in Workers, j \in JobIds : Dequeue(w, j)
    \/ \E w \in Workers : ProcessRows(w)
    \/ \E w \in Workers : BulkUpdateThrows(w)
    \/ \E w \in Workers : Commit(w)
    \/ CompletionCheck

SpecRetries == InitRetries /\ [][NextRetries]_vars

(***************************************************************************)
(* The limiter: new Bottleneck({ maxConcurrent, minTime }), its "failed"   *)
(* listener and the three calls of limiter.schedule.  Time is not part of  *)
(* the state: minTime and the retry delay only postpone a step.            *)
(***************************************************************************)
maxConcurrent == 2
GateRetryLimit == 5

RequestFailed ==
    << "R","e","q","u","e","s","t"," ","f","a","i","l","e","d"," ","w","i","t","h"," ",
       "s","t","a","t","u","s"," ","c","o","d","e"," " >>
SocketHangUp == << "s","o","c","k","e","t"," ","h","a","n","g"," ","u","p" >>
ReadECONNRESET == << "r","e","a","d"," ","E","C","O","N","N","R","E","S","E","T" >>

\* The messages of the errors wooApi rejects with.
ErrorMessages ==
    { RequestFailed \o code :
        code \in { <<"4","2","9">>, <<"5","0","2">>, <<"5","0","4">>, <<"5","2","4">>,
                   <<"4","0","0">> } }
        \cup { SocketHangUp, ReadECONNRESET }

\* pattern occurs in s
Contains(s, pattern) ==
    \E i \in 1..(Len(s) - Len(pattern) + 1) : SubSeq(s, i, i + Len(pattern) - 1) = pattern

\* /(ECONNRESET|socket hang up|502|504|429)/
RetryPattern ==
    { << "E","C","O","N","N","R","E","S","E","T" >>, SocketHangUp,
      <<"5","0","2">>, <<"5","0","4">>, <<"4","2","9">> }

RetryPatternTest(message) == \E pattern \in RetryPattern : Contains(message, pattern)

\* The listener of limiter.on("failed"): << delay >> when it returns a delay,
\* << >> when it returns nothing.
limiterOnFailed_Six(message, retryCount) ==
    IF retryCount < GateRetryLimit + 1 /\ RetryPatternTest(message)
    THEN << 1000 * 2 ^ retryCount >>
    ELSE << >>

limiterOnFailed(message, retryCount) ==
    IF retryCount < GateRetryLimit /\ RetryPatternTest(message)
    THEN << 1000 * 2 ^ retryCount >>
    ELSE << >>

Running == { c \in GateCalls : gate.jobs[c].status \in { "executing", "retrying" } }

GateHasSlot_Always(running) == TRUE

\* Bottleneck starts a queued job while fewer than maxConcurrent jobs run; a
\* job runs from its start until it is done, its retries included.
GateHasSlot(running) == Cardinality(running) < maxConcurrent

GateUnchanged ==
    UNCHANGED << discovery, ckpt, rec, cmp, text, feedRows, batchSize, remote, redis, checkpointFile,
                 queue, ingest, workers, exited, restarts, faults, acted, created,
                 submitted, bulkLog >>

\* limiter.schedule(options, task)
GateSchedule(c) ==
    /\ gate.jobs[c].status = "none"
    /\ gate' = [ gate EXCEPT !.jobs[c].status = "queued" ]
    /\ GateUnchanged

\* The limiter calls the task of a queued job.
GateRun(c) ==
    /\ gate.jobs[c].status = "queued"
    /\ GateHasSlot(Running)
    /\ gate' = [ gate EXCEPT !.jobs[c].status = "executing", !.jobs[c].executions = 1 ]
    /\ GateUnchanged

\* The remote call answers: the promise of schedule resolves.
GateResolve(c) ==
    /\ gate.jobs[c].status = "executing"
    /\ gate' = [ gate EXCEPT !.jobs[c].status = "resolved" ]
    /\ GateUnchanged

\* The remote call fails: "failed" is emitted; a delay returned by the listener
\* makes the limiter run the task again, nothing returned rejects the promise.
GateFail(c) ==
    /\ gate.jobs[c].status = "executing"
    /\ \E message \in ErrorMessages :
         \E returned \in { limiterOnFailed(message, gate.jobs[c].retryCount) } :
            gate' = [ gate EXCEPT
                        !.failed = [ message |-> message,
                                     retryCount |-> gate.jobs[c].retryCount,
                                     returned |-> returned ],
                        !.jobs[c].status =
                            IF returned = << >> THEN "rejected" ELSE "retrying",
                        !.jobs[c].retryCount =
                            IF returned = << >> THEN @ ELSE @ + 1 ]
    /\ GateUnchanged

\* The delay is over: the limiter calls the task again.
GateRetry(c) ==
    /\ gate.jobs[c].status = "retrying"
    /\ gate' = [ gate EXCEPT !.jobs[c].status = "executing",
                             !.jobs[c].executions = @ + 1 ]
    /\ GateUnchanged

InitGate ==
    /\ feedRows = [ f \in Feeds |-> <<>> ]
    /\ batchSize = 1
    /\ remote = [ f \in Feeds |-> <<>> ]
    /\ redis = [ f \in Feeds |->
                   [ total |-> NoKey, updated |-> 0, skipped |-> 0, failed |-> 0,
                     lastProcessedRow |-> 0 ] ]
    /\ checkpointFile = [ f \in Feeds |-> 0 ]
    /\ queue = [ j \in JobIds |-> NoJob ]
    /\ ingest = [ f \in Feeds |-> NewIngest ]
    /\ workers = [ w \in Workers |-> IdleWorker ]
    /\ exited = FALSE
    /\ restarts = 0
    /\ faults = 0
    /\ acted = {}
    /\ created = [ j \in JobIds |-> 0 ]
    /\ submitted = [ f \in Feeds |-> <<>> ]
    /\ bulkLog = {}
    /\ rec = RecIdle
    /\ gate = GateIdle
    /\ cmp = CmpIdle
    /\ text = TextIdle
    /\ discovery = DiscoveryIdle
    /\ ckpt = CkptIdle

NextGate ==
    \/ \E c \in GateCalls : GateSchedule(c)
    \/ \E c \in GateCalls : GateRun(c)
    \/ \E c \in GateCalls : GateResolve(c)
    \/ \E c \in GateCalls : GateFail(c)
    \/ \E c \in GateCalls : GateRetry(c)

SpecGate == InitGate /\ [][NextGate]_vars

(***************************************************************************)
(* The comparison of one product with one CSV row: createNewData,          *)
(* filterCurrentData and isUpdateNeeded with its fieldsToUpdate.           *)
(***************************************************************************)
CmpItems ==
    WithColumn(WithColumn(WithColumn({ [ part_number |-> <<"p">>,
                                         product_description |-> <<"d">> ] },
                                     "sku", { <<>>, <<"a">>, <<" ", "a">>, <<"b">> }),
                          "spq", { <<>>, <<" ">>, <<"5">>, <<"5", " ">> }),
               "series", { <<"x">> })

CmpMeta ==
    { << [ key |-> "short_description", value |-> <<"d">> ],
         [ key |-> "_edit_lock", value |-> <<"1">> ] >> \o more :
        more \in { <<>>,
                   << [ key |-> "spq", value |-> <<"5">> ] >>,
                   << [ key |-> "spq", value |-> <<>> ] >>,
                   << [ key |-> "series", value |-> <<"x">> ] >>,
                   << [ key |-> "spq", value |-> <<"5">> ],
                      [ key |-> "spq", value |-> <<"7">> ] >> } }

CmpProducts == [ sku : { <<>>, <<"a">> }, description : { <<"d">> }, meta_data : CmpMeta ]

\* fieldsToUpdate of isUpdateNeeded: << key >> for a scalar key and
\* << "meta_data", key >> for `meta_data.${key}`.
fieldsToUpdate(currentData, newData) ==
    { << key >> : key \in { k \in { "sku", "description" } :
                              ScalarNeedsUpdate(currentData[k], newData[k]) } }
        \cup { << "meta_data", newData.meta_data[i].key >> :
                 i \in { j \in 1..Len(newData.meta_data) :
                           MetaEntryNeedsUpdate(currentData.meta_data,
                                                newData.meta_data[j]) } }

InitCompare ==
    /\ feedRows = [ f \in Feeds |-> <<>> ]
    /\ batchSize = 1
    /\ remote = [ f \in Feeds |-> <<>> ]
    /\ redis = [ f \in Feeds |->
                   [ total |-> NoKey, updated |-> 0, skipped |-> 0, failed |-> 0,
                     lastProcessedRow |-> 0 ] ]
    /\ checkpointFile = [ f \in Feeds |-> 0 ]
    /\ queue = [ j \in JobIds |-> NoJob ]
    /\ ingest = [ f \in Feeds |-> NewIngest ]
    /\ workers = [ w \in Workers |-> IdleWorker ]
    /\ exited = FALSE
    /\ restarts = 0
    /\ faults = 0
    /\ acted = {}
    /\ created = [ j \in JobIds |-> 0 ]
    /\ submitted = [ f \in Feeds |-> <<>> ]
    /\ bulkLog = {}
    /\ rec = RecIdle
    /\ gate = GateIdle
    /\ cmp \in [ phase : { "fetched" }, item : CmpItems, product : CmpProducts ]
    /\ text = TextIdle
    /\ discovery = DiscoveryIdle
    /\ ckpt = CkptIdle

\* processBatch, lines 193-203: the row's newData and the product's
\* currentData are built and compared.
CmpCompare ==
    /\ cmp.phase = "fetched"
    /\ \E newData \in { createNewData(cmp.item, RecProductId, cmp.item.part_number) } :
       \E currentData \in { filterCurrentData(cmp.product) } :
          cmp' = [ phase |-> "compared", item |-> cmp.item, product |-> cmp.product,
                   newData |-> newData, currentData |-> currentData,
                   fieldsToUpdate |-> fieldsToUpdate(currentData, newData),
                   isUpdateNeeded |-> isUpdateNeeded(currentData, newData) ]
    /\ UNCHANGED << discovery, ckpt, rec, gate, text, feedRows, batchSize, remote, redis, checkpointFile,
                    queue, ingest, workers, exited, restarts, faults, acted, created,
                    submitted, bulkLog >>

NextCompare == CmpCompare

SpecCompare == InitCompare /\ [][NextCompare]_vars

(***************************************************************************)
(* normalizeText applied to a string and to its own result.                *)
(***************************************************************************)
MaxFragments == 3

Fragments ==
    { <<" ">>, <<"\n">>, <<"a">>, <<"<", "b", ">">>, <<"<">>, <<">">>,
      DegEntity, <<"&">>, <<"d", "e", "g", ";">>, NotSignAE, <<"u00ac">>, <<"u00c6">> }

RECURSIVE Concat(_)
Concat(fragments) ==
    IF fragments = <<>> THEN <<>> ELSE Head(fragments) \o Concat(Tail(fragments))

TextInputs ==
    { Undefined } \cup
        { Concat(fs) : fs \in UNION { [1..n -> Fragments] : n \in 0..MaxFragments } }

InitText ==
    /\ feedRows = [ f \in Feeds |-> <<>> ]
    /\ batchSize = 1
    /\ remote = [ f \in Feeds |-> <<>> ]
    /\ redis = [ f \in Feeds |->
                   [ total |-> NoKey, updated |-> 0, skipped |-> 0, failed |-> 0,
                     lastProcessedRow |-> 0 ] ]
    /\ checkpointFile = [ f \in Feeds |-> 0 ]
    /\ queue = [ j \in JobIds |-> NoJob ]
    /\ ingest = [ f \in Feeds |-> NewIngest ]
    /\ workers = [ w \in Workers |-> IdleWorker ]
    /\ exited = FALSE
    /\ restarts = 0
    /\ faults = 0
    /\ acted = {}
    /\ created = [ j \in JobIds |-> 0 ]
    /\ submitted = [ f \in Feeds |-> <<>> ]
    /\ bulkLog = {}
    /\ rec = RecIdle
    /\ gate = GateIdle
    /\ cmp = CmpIdle
    /\ text \in [ phase : { "given" }, given : TextInputs ]
    /\ discovery = DiscoveryIdle
    /\ ckpt = CkptIdle

TextUnchanged ==
    UNCHANGED << discovery, ckpt, rec, gate, cmp, feedRows, batchSize, remote, redis, checkpointFile,
                 queue, ingest, workers, exited, restarts, faults, acted, created,
                 submitted, bulkLog >>

TextNormalize ==
    /\ text.phase = "given"
    /\ text' = [ phase |-> "once", given |-> text.given, once |-> normalizeText(text.given) ]
    /\ TextUnchanged

TextNormalizeAgain ==
    /\ text.phase = "once"
    /\ text' = [ phase |-> "twice", given |-> text.given, once |-> text.once,
                 twice |-> normalizeText(text.once) ]
    /\ TextUnchanged

NextText == TextNormalize \/ TextNormalizeAgain

SpecText == InitText /\ [][NextText]_vars

(***************************************************************************)
(* readCSVAndEnqueueJobs on feeds whose rows may throw while they are      *)
(* processed.                                                              *)
(***************************************************************************)
MaxErrorRows == 4

ErrorBatchSizes == { 1, 2, 3 }

ErrorJobIds == Feeds \X (1..MaxErrorRows)

InitIngestErrors ==
    /\ feedRows \in [ Feeds -> { [ i \in 1..n |->
                                     [ item |-> ItemSame, found |-> TRUE, fetchOk |-> TRUE ] ] :
                                 n \in 0..MaxErrorRows } ]
    /\ batchSize \in ErrorBatchSizes
    /\ remote = [ f \in Feeds |-> [ i \in 1..Len(feedRows[f]) |-> BaseProduct ] ]
    /\ redis = [ f \in Feeds |->
                   [ total |-> NoKey, updated |-> 0, skipped |-> 0, failed |-> 0,
                     lastProcessedRow |-> 0 ] ]
    /\ checkpointFile = [ f \in Feeds |-> 0 ]
    /\ queue = [ j \in ErrorJobIds |-> NoJob ]
    /\ ingest = [ f \in Feeds |-> NewIngest ]
    /\ workers = [ w \in Workers |-> IdleWorker ]
    /\ exited = FALSE
    /\ restarts = 0
    /\ faults = 0
    /\ acted = {}
    /\ created = [ j \in ErrorJobIds |-> 0 ]
    /\ submitted = [ f \in Feeds |-> <<>> ]
    /\ bulkLog = {}
    /\ rec = RecIdle
    /\ gate = GateIdle
    /\ cmp = CmpIdle
    /\ text = TextIdle
    /\ discovery = DiscoveryIdle
    /\ ckpt = CkptIdle

NextIngestErrors ==
    \/ \E f \in Feeds : IngestStart(f)
    \/ \E f \in Feeds : IngestCount(f)
    \/ \E f \in Feeds : IngestRow(f)
    \/ \E f \in Feeds : IngestRowThrows(f)
    \/ \E f \in Feeds : IngestEnd(f)

SpecIngestErrors == InitIngestErrors /\ [][NextIngestErrors]_vars

(***************************************************************************)
(* The pipeline on the folder of one CSV file with the columns Part Number *)
(* and SKU and one row, whose product exists with another sku and without  *)
(* meta data.                                                              *)
(***************************************************************************)
SkuNew == << "s", "k", "u", "-", "n", "e", "w" >>
SkuOld == << "s", "k", "u", "-", "o", "l", "d" >>

OneRowItem == [ part_number |-> << "X", "-", "1" >>, sku |-> SkuNew ]
OneRowProduct == [ sku |-> SkuOld, description |-> Undefined, meta_data |-> <<>> ]

InitOneRow ==
    /\ feedRows = [ f \in Feeds |->
                      << [ item |-> OneRowItem, found |-> TRUE, fetchOk |-> TRUE ] >> ]
    /\ batchSize \in BatchSizes
    /\ remote = [ f \in Feeds |-> << OneRowProduct >> ]
    /\ redis = [ f \in Feeds |->
                   [ total |-> NoKey, updated |-> 0, skipped |-> 0, failed |-> 0,
                     lastProcessedRow |-> 0 ] ]
    /\ checkpointFile = [ f \in Feeds |-> 0 ]
    /\ queue = [ j \in JobIds |-> NoJob ]
    /\ ingest = [ f \in Feeds |-> NewIngest ]
    /\ workers = [ w \in Workers |-> IdleWorker ]
    /\ exited = FALSE
    /\ restarts = 0
    /\ faults = 0
    /\ acted = {}
    /\ created = [ j \in JobIds |-> 0 ]
    /\ submitted = [ f \in Feeds |-> <<>> ]
    /\ bulkLog = {}
    /\ rec = RecIdle
    /\ gate = GateIdle
    /\ cmp = CmpIdle
    /\ text = TextIdle
    /\ discovery = DiscoveryIdle
    /\ ckpt = CkptIdle

SpecOneRow == InitOneRow /\ [][Next]_vars

(***************************************************************************)
(* Feed discovery: getLatestFolderKey and processCSVFilesInLatestFolder    *)
(* over a bucket.  Folder names and object keys are sequences of           *)
(* characters; the bucket lists its prefixes in the order of their names.  *)
(***************************************************************************)
MaxFolders == 3
FileBatches == 2

Digits == << "0", "1", "2", "3", "4", "5", "6", "7", "8", "9" >>
IsDigit(c) == \E i \in 1..10 : Digits[i] = c
DigitValue(c) == (CHOOSE i \in 1..10 : Digits[i] = c) - 1

UpperCase == << "A", "B", "C", "D", "E", "F", "G", "H", "I", "J", "K", "L", "M", "N",
               "O", "P", "Q", "R", "S", "T", "U", "V", "W", "X", "Y", "Z" >>
LowerCase == << "a", "b", "c", "d", "e", "f", "g", "h", "i", "j", "k", "l", "m", "n",
               "o", "p", "q", "r", "s", "t", "u", "v", "w", "x", "y", "z" >>

toLowerCase(str) ==
    [ i \in 1..Len(str) |->
        IF \E k \in 1..26 : UpperCase[k] = str[i]
        THEN LowerCase[CHOOSE k \in 1..26 : UpperCase[k] = str[i]]
        ELSE str[i] ]

endsWith(str, suffix) ==
    Len(suffix) <= Len(str) /\ SubSeq(str, Len(str) - Len(suffix) + 1, Len(str)) = suffix

\* The prefixes a bucket can hold, in the order of a listing.
AllPrefixes ==
    << << "0", "1", "-", "1", "5", "-", "2", "0", "2", "5", "/" >>,
       << "1", "-", "0", "5", "-", "2", "0", "2", "5", "/" >>,
       << "1", "0", "-", "3", "1", "-", "2", "0", "2", "4", "-", "t", "e", "s", "t", "/" >>,
       << "1", "0", "-", "3", "1", "-", "2", "0", "2", "4", "/" >>,
       << "1", "1", "-", "0", "2", "-", "2", "0", "2", "4", "-", "t", "e", "s", "t", "/" >>,
       << "1", "2", "-", "3", "1", "-", "2", "0", "2", "4", "/" >>,
       << "l", "o", "g", "s", "/" >> >>

FileNames == { << "a", ".", "c", "s", "v" >>,
                  << "B", ".", "C", "S", "V" >>,
                  << "a", ".", "t", "x", "t" >>,
                  << "c", "s", "v" >> }

\* /^\d{2}-\d{2}-\d{4}/ at the start of prefix
StartsWithDate(prefix) ==
    /\ Len(prefix) >= 10
    /\ \A i \in { 1, 2, 4, 5, 7, 8, 9, 10 } : IsDigit(prefix[i])
    /\ prefix[3] = "-"
    /\ prefix[6] = "-"

\* pattern.test(prefix): /^\d{2}-\d{2}-\d{4}\/$/ in production,
\* /^\d{2}-\d{2}-\d{4}-test\/$/ in development.
PatternTest(executionMode, prefix) ==
    /\ StartsWithDate(prefix)
    /\ SubSeq(prefix, 11, Len(prefix)) =
          IF executionMode = "production" THEN << "/" >>
          ELSE << "-", "t", "e", "s", "t", "/" >>

TwoDigits(str, i) == 10 * DigitValue(str[i]) + DigitValue(str[i + 1])

\* Variant of DateValue that orders the dates as their text is ordered.
DateValue_AsText(prefix) ==
    (TwoDigits(prefix, 1) * 31 + TwoDigits(prefix, 4)) * 10000
        + 100 * TwoDigits(prefix, 7) + TwoDigits(prefix, 9)

\* new Date(prefix.slice(0, 10)) of a month-day-year date, as a number of
\* days: months of 31 days keep the order of the dates.
DateValue(prefix) ==
    ((100 * TwoDigits(prefix, 7) + TwoDigits(prefix, 9)) * 12
        + (TwoDigits(prefix, 1) - 1)) * 31 + TwoDigits(prefix, 4)

\* sort((a, b) => new Date(b...) - new Date(a...)): stable, descending.
RECURSIVE InsertDescending(_, _)
InsertDescending(sorted, prefix) ==
    IF sorted = <<>> THEN << prefix >>
    ELSE IF DateValue(prefix) - DateValue(Head(sorted)) > 0
         THEN << prefix >> \o sorted
         ELSE << Head(sorted) >> \o InsertDescending(Tail(sorted), prefix)

RECURSIVE SortDescending(_)
SortDescending(prefixes) ==
    IF prefixes = <<>> THEN <<>>
    ELSE InsertDescending(SortDescending(SubSeq(prefixes, 1, Len(prefixes) - 1)),
                          prefixes[Len(prefixes)])

Null == << "null" >>

getLatestFolderKey(executionMode, commonPrefixes) ==
    LET folders ==
            SortDescending(SelectSeq(commonPrefixes,
                                     LAMBDA prefix : PatternTest(executionMode, prefix)))
    IN IF Len(folders) = 0 THEN Null ELSE folders[1]

\* ListObjectsV2 with Prefix: the keys of the bucket that start with the prefix.
ListContents(keys, prefix) == { key \in keys : IsPrefix(prefix, key) }

CsvFiles(contents) ==
    { key \in contents : endsWith(toLowerCase(key), << ".", "c", "s", "v" >>) }

\* Variant of PromiseAll that settles with its first rejected promise.
PromiseAll_Rejects(tasks) ==
    \/ \A key \in DOMAIN tasks : tasks[key].status # "running"
    \/ \E key \in DOMAIN tasks : tasks[key].status = "failed"

\* await Promise.all(fileProcessingTasks): every task catches its own error,
\* so the promise settles when all tasks have ended.
PromiseAll(tasks) == \A key \in DOMAIN tasks : tasks[key].status # "running"

Buckets ==
    { [ prefixes |-> SelectSeq(AllPrefixes, LAMBDA prefix : prefix \in chosen),
        files |-> names ] :
        chosen \in { c \in SUBSET { AllPrefixes[i] : i \in 1..Len(AllPrefixes) } :
                       Cardinality(c) <= MaxFolders },
        names \in SUBSET FileNames }

BucketKeys(bucket) ==
    { bucket.prefixes[i] \o name : i \in 1..Len(bucket.prefixes), name \in bucket.files }

DiscoveryUnchanged ==
    UNCHANGED << ckpt, rec, gate, cmp, text, feedRows, batchSize, remote, redis,
                 checkpointFile, queue, ingest, workers, exited, restarts, faults, acted,
                 created, submitted, bulkLog >>

InitDiscovery ==
    /\ feedRows = [ f \in Feeds |-> <<>> ]
    /\ batchSize = 1
    /\ remote = [ f \in Feeds |-> <<>> ]
    /\ redis = [ f \in Feeds |->
                   [ total |-> NoKey, updated |-> 0, skipped |-> 0, failed |-> 0,
                     lastProcessedRow |-> 0 ] ]
    /\ checkpointFile = [ f \in Feeds |-> 0 ]
    /\ queue = [ j \in JobIds |-> NoJob ]
    /\ ingest = [ f \in Feeds |-> NewIngest ]
    /\ workers = [ w \in Workers |-> IdleWorker ]
    /\ exited = FALSE
    /\ restarts = 0
    /\ faults = 0
    /\ acted = {}
    /\ created = [ j \in JobIds |-> 0 ]
    /\ submitted = [ f \in Feeds |-> <<>> ]
    /\ bulkLog = {}
    /\ rec = RecIdle
    /\ gate = GateIdle
    /\ cmp = CmpIdle
    /\ text = TextIdle
    /\ discovery \in [ phase : { "start" },
                       executionMode : { "production", "development" },
                       bucket : Buckets ]
    /\ ckpt = CkptIdle

\* processCSVFilesInLatestFolder up to the tasks: the latest folder is
\* chosen and its CSV files are listed; without folder or CSV file it returns.
DiscoverFiles ==
    /\ discovery.phase = "start"
    /\ \E latestFolder \in { getLatestFolderKey(discovery.executionMode,
                                                discovery.bucket.prefixes) } :
       \E csvFiles \in { IF latestFolder = Null THEN {}
                         ELSE CsvFiles(ListContents(BucketKeys(discovery.bucket),
                                                    latestFolder)) } :
          discovery' = [ phase |-> IF csvFiles = {} THEN "returned" ELSE "tasks",
                         executionMode |-> discovery.executionMode,
                         bucket |-> discovery.bucket,
                         latestFolder |-> latestFolder,
                         tasks |-> [ key \in csvFiles |->
                                       [ status |-> "running", enqueued |-> 0 ] ] ]
    /\ DiscoveryUnchanged

\* readCSVAndEnqueueJobs of one file enqueues a batch.
FileEnqueues(key) ==
    /\ discovery.phase = "tasks"
    /\ key \in DOMAIN discovery.tasks
    /\ discovery.tasks[key].status = "running"
    /\ discovery.tasks[key].enqueued < FileBatches
    /\ discovery' = [ discovery EXCEPT !.tasks[key].enqueued = @ + 1 ]
    /\ DiscoveryUnchanged

\* readCSVAndEnqueueJobs of one file returns.
FileCompletes(key) ==
    /\ discovery.phase = "tasks"
    /\ key \in DOMAIN discovery.tasks
    /\ discovery.tasks[key].status = "running"
    /\ discovery.tasks[key].enqueued = FileBatches
    /\ discovery' = [ discovery EXCEPT !.tasks[key].status = "done" ]
    /\ DiscoveryUnchanged

\* readCSVAndEnqueueJobs of one file throws (the download fails, or the row
\* loop aborts): the catch of the file's task logs the error.
FileThrows(key) ==
    /\ discovery.phase = "tasks"
    /\ key \in DOMAIN discovery.tasks
    /\ discovery.tasks[key].status = "running"
    /\ discovery' = [ discovery EXCEPT !.tasks[key].status = "failed" ]
    /\ DiscoveryUnchanged

\* Promise.all settles and processCSVFilesInLatestFolder returns.
DiscoveryReturns ==
    /\ discovery.phase = "tasks"
    /\ PromiseAll(discovery.tasks)
    /\ discovery' = [ discovery EXCEPT !.phase = "returned" ]
    /\ DiscoveryUnchanged

NextDiscovery ==
    \/ DiscoverFiles
    \/ \E key \in BucketKeys(discovery.bucket) : FileEnqueues(key)
    \/ \E key \in BucketKeys(discovery.bucket) : FileCompletes(key)
    \/ \E key \in BucketKeys(discovery.bucket) : FileThrows(key)
    \/ DiscoveryReturns

SpecDiscovery == InitDiscovery /\ [][NextDiscovery]_vars

(***************************************************************************)
(* The checkpoint file under concurrent handlers of one worker process.    *)
(* saveCheckpoint reads the whole JSON map, sets the entry of its feed and *)
(* writes the whole map.  The repository holds two revisions of it:        *)
(* src/checkpoint.js awaits redisClient.set between the read and the       *)
(* write, so other handlers run in between; src/unnamed/part_007 has that  *)
(* line commented out and runs from the read to the write in one turn.     *)
(***************************************************************************)
CkptTotal == 3
MaxBatchLength == 2

CkptFeeds == { "feedA", "feedB" }
CkptRevisions == { "checkpoint.js", "part_007" }
CkptEmptyFile == [ f \in CkptFeeds |-> 0 ]
CkptHandler ==
    [ pc |-> "idle", fileKey |-> "", checkpoints |-> CkptEmptyFile,
      updatedLastProcessedRow |-> 0 ]

CkptUnchanged ==
    UNCHANGED << discovery, rec, gate, cmp, text, feedRows, batchSize, remote, redis,
                 checkpointFile, queue, ingest, workers, exited, restarts, faults, acted,
                 created, submitted, bulkLog >>

InitCheckpoint ==
    /\ feedRows = [ f \in Feeds |-> <<>> ]
    /\ batchSize = 1
    /\ remote = [ f \in Feeds |-> <<>> ]
    /\ redis = [ f \in Feeds |->
                   [ total |-> NoKey, updated |-> 0, skipped |-> 0, failed |-> 0,
                     lastProcessedRow |-> 0 ] ]
    /\ checkpointFile = [ f \in Feeds |-> 0 ]
    /\ queue = [ j \in JobIds |-> NoJob ]
    /\ ingest = [ f \in Feeds |-> NewIngest ]
    /\ workers = [ w \in Workers |-> IdleWorker ]
    /\ exited = FALSE
    /\ restarts = 0
    /\ faults = 0
    /\ acted = {}
    /\ created = [ j \in JobIds |-> 0 ]
    /\ submitted = [ f \in Feeds |-> <<>> ]
    /\ bulkLog = {}
    /\ rec = RecIdle
    /\ gate = GateIdle
    /\ cmp = CmpIdle
    /\ text = TextIdle
    /\ discovery = DiscoveryIdle
    /\ ckpt \in [ phase : { "run" },
                  revision : CkptRevisions,
                  file : { CkptEmptyFile },
                  committed : { CkptEmptyFile },
                  returned : { "" },
                  handlers : { [ h \in Workers |-> CkptHandler ] } ]

\* A handler calls saveCheckpoint.  With an empty batch it ends at once
\* (part_007 logs and returns, checkpoint.js throws on the undeclared
\* logErrorToFile).  Else the file is read and the new row computed; part_007
\* writes the file in the same turn, checkpoint.js first awaits
\* redisClient.set.
SaveCheckpointCall(h, fileKey, lastProcessedRow, batchLength) ==
    /\ ckpt.phase = "run"
    /\ ckpt.handlers[h].pc = "idle"
    /\ \E written \in { saveCheckpoint(ckpt.file, fileKey, lastProcessedRow,
                                       CkptTotal, batchLength) } :
          IF batchLength = 0
          THEN ckpt' = [ ckpt EXCEPT !.file = written, !.returned = "invalid batch" ]
          ELSE IF ckpt.revision = "part_007"
          THEN ckpt' = [ ckpt EXCEPT !.file = written,
                                     !.committed[fileKey] = written[fileKey],
                                     !.returned = "saved" ]
          ELSE ckpt' = [ ckpt EXCEPT !.handlers[h] =
                           [ pc |-> "awaiting", fileKey |-> fileKey,
                             checkpoints |-> ckpt.file,
                             updatedLastProcessedRow |-> written[fileKey] ] ]
    /\ CkptUnchanged

\* checkpoint.js after the await: the map read before it, with the entry of
\* the feed set, is written as the whole file.
SaveCheckpointWrite(h) ==
    /\ ckpt.phase = "run"
    /\ ckpt.handlers[h].pc = "awaiting"
    /\ LET call == ckpt.handlers[h]
       IN ckpt' = [ ckpt EXCEPT
                      !.file = [ call.checkpoints EXCEPT
                                   ![call.fileKey] = call.updatedLastProcessedRow ],
                      !.committed[call.fileKey] = call.updatedLastProcessedRow,
                      !.returned = "saved",
                      !.handlers[h] = CkptHandler ]
    /\ CkptUnchanged

NextCheckpoint ==
    \/ \E h \in Workers, fileKey \in CkptFeeds, lastProcessedRow \in 0..(CkptTotal + 1),
          batchLength \in 0..MaxBatchLength :
          SaveCheckpointCall(h, fileKey, lastProcessedRow, batchLength)
    \/ \E h \in Workers : SaveCheckpointWrite(h)

SpecCheckpoint == InitCheckpoint /\ [][NextCheckpoint]_vars

(***************************************************************************)
(* Claims.                                                                 *)
(***************************************************************************)
Registered(f) == redis[f].total # NoKey

\* C1: the values written to the checkpoint of a feed never decrease: no
\* commit writes a value smaller than the one stored.
C1_CheckpointMonotonic ==
    [][\A f \in Feeds : checkpointFile'[f] >= checkpointFile[f]]_vars

\* C2: in every state reached without a restart, also after processBatch was
\* run again by retryWithBackoff, updated + skipped + failed <= total.
C2_CounterBound ==
    restarts = 0 =>
        \A f \in Feeds : Registered(f) => Counted(f) <= redis[f].total

\* C3: when the checkpoint of a feed holds k, every row with index <= k has
\* been reconciled by a worker.
C3_NoRowSkipped ==
    \A f \in Feeds : \A i \in 1..checkpointFile[f] : << f, i >> \in acted

\* C4: once the ingest of a feed is done and every job of it is acknowledged
\* (no call failed, no restart), updated + skipped + failed = total.
AllAcknowledged(f) ==
    /\ ingest[f].pc = "done"
    /\ \A j \in JobIds : j[1] = f => queue[j].state = "none"
    /\ \A k \in 1..Len(submitted[f]) :
          created[JobIdOf(f, submitted[f][k].lastProcessedRow)] > 0
C4_EveryRowCounted ==
    \A f \in Feeds :
        (faults = 0 /\ restarts = 0 /\ AllAcknowledged(f)) => Counted(f) = redis[f].total

\* C5: the completion check exits the process only when every feed of the
\* folder has registered its total and has counted all of its rows.
FeedComplete(f) == Registered(f) /\ Counted(f) >= redis[f].total
C5_ExitOnlyWhenComplete ==
    [][(~exited /\ exited') => \A f \in Feeds : FeedComplete(f)]_vars

\* C6: when every call returns and the queue keeps delivering (here: no call
\* fails and no process restarts), the process is eventually shut down by the
\* completion check.
C6_EventuallyShutsDown == <>(exited \/ faults > 0 \/ restarts > 0)

\* C7: the queue creates at most one job for a job id: enqueuing a batch with
\* the same (feedKey, lastRowIndex) again is a no-op, whatever became of the
\* first job.
C7_OneJobPerId == \A j \in JobIds : created[j] <= 1

\* C8: a feed of n rows is handed to the queue as ceil(n / b) jobs in row order,
\* job k holding the rows (k-1)b+1 .. min(kb, n) and carrying the index of its
\* last row.
ExpectedJob(f, k) ==
    LET n == Len(feedRows[f])
        first == (k - 1) * batchSize + 1
        last == Min(k * batchSize, n)
    IN [ batch |-> [ i \in 1..(last - first + 1) |-> first + i - 1 ],
         fileKey |-> f,
         totalProductsInFile |-> n,
         lastProcessedRow |-> last,
         batchSize |-> last - first + 1 ]
ExpectedJobs(f) ==
    [ k \in 1..((Len(feedRows[f]) + batchSize - 1) \div batchSize) |-> ExpectedJob(f, k) ]
C8_BatchesPartitionFeed ==
    \A f \in Feeds : ingest[f].pc = "done" => submitted[f] = ExpectedJobs(f)
C8_Witness ==
    \E f \in Feeds : /\ ingest[f].pc = "done"
                     /\ Len(submitted[f]) = 2
                     /\ Len(submitted[f][1].batch) = 2
                     /\ Len(submitted[f][2].batch) = 1

\* C9: a row that was updated and whose bulk update succeeded is classified
\* NO_CHANGE when the reconciler runs on it again, whatever its cells, absent
\* and empty optional columns included.
C9_ReplayIsNoChange == rec.phase = "replayed" => rec.second = "no_change"

\* C10: a row whose payload equals the current projection (scalars and every
\* emitted meta entry, after normalization) is never sent in a bulk update, and
\* a bulk update is issued only with at least one payload.
SameUnderDiffRules(currentData, newData) ==
    /\ IsString(newData.sku)
    /\ normalizeText(newData.sku) = normalizeText(currentData.sku)
    /\ IsString(newData.description)
    /\ normalizeText(newData.description) = normalizeText(currentData.description)
    /\ \A i \in 1..Len(newData.meta_data) :
          LET m == newData.meta_data[i]
              has == \E k \in 1..Len(currentData.meta_data) :
                        currentData.meta_data[k].key = m.key
              cur == FindMeta(currentData.meta_data, m.key).value
          IN IF Truthy(m.value)
             THEN has /\ normalizeText(cur) = normalizeText(m.value)
             ELSE normalizeText(cur) = <<>>
Commits(w) ==
    /\ workers[w].pc = "commit"
    /\ workers'[w].pc = "idle"
    /\ restarts' = restarts

\* C11: the checkpoint stored on the commit of a job is the index of the last
\* row of that job's batch, whatever other jobs of the feed have stored.
C11_CheckpointFromOwnRange ==
    [][\A w \in Workers :
          Commits(w) => checkpointFile'[workers[w].job[1]] = workers[w].job[2]]_vars

\* A step taken by worker w inside the bulk update loop of processBatch.
BulkStep(w) ==
    /\ workers[w].pc = "bulk"
    /\ workers'[w] # workers[w]
    /\ restarts' = restarts

\* C12: one invocation of processBatch makes at most 5 bulk update attempts;
\* the loop is left for the commit at the first attempt that succeeds, goes on
\* after a failed attempt that is not the fifth, and throws at the fifth.
C12_RetryLoop ==
    [][\A w \in Workers :
          BulkStep(w) =>
             /\ workers[w].attempts < 5
             /\ \/ workers'[w].pc = "commit"
                \/ /\ workers[w].attempts + 1 < 5
                   /\ workers'[w].pc = "bulk"
                   /\ workers'[w].attempts = workers[w].attempts + 1
                \/ /\ workers[w].attempts + 1 = 5
                   /\ workers'[w].pc \in { "rows", "idle" }]_vars
C12_Witness ==
    \E w \in Workers : workers[w].pc = "rows" /\ workers[w].attempts = 5

\* C13: the updated counter of a feed changes only in a step in which a bulk
\* update of that feed succeeds, and then by the number of payloads sent.
C13_UpdatedOnlyBySuccess ==
    [][\A f \in Feeds :
          redis'[f].updated # redis[f].updated =>
             \E w \in Workers :
                /\ BulkStep(w)
                /\ workers[w].job[1] = f
                /\ workers'[w].pc = "commit"
                /\ redis'[f].updated =
                      redis[f].updated + Len(workers[w].filteredProducts)]_vars

\* C16: after a restart the ingestion resumes after the checkpoint: the queue
\* gets no new job holding a row that is at or below the stored checkpoint and
\* has been reconciled already.
C16_ResumeAfterCheckpoint ==
    [][\A j \in JobIds :
          (restarts > 0 /\ created'[j] > created[j]) =>
             \A k \in 1..Len(queue'[j].batch) :
                LET row == queue'[j].batch[k]
                IN ~(row <= checkpointFile[j[1]] /\ << j[1], row >> \in acted)]_vars

\* C17: no step lowers the updated, skipped or failed counter of a feed.
C17_CountersMonotonic ==
    [][\A f \in Feeds :
          /\ redis'[f].updated >= redis[f].updated
          /\ redis'[f].skipped >= redis[f].skipped
          /\ redis'[f].failed >= redis[f].failed]_vars

\* C20: once every job of a feed is acknowledged (no call failed, no restart),
\* the failed counter has counted every row of the feed without part_number.
MissingPartRows(f) ==
    { i \in 1..Len(feedRows[f]) : ~Truthy(Field(feedRows[f][i].item, "part_number")) }
C20_MissingPartCountsFailed ==
    \A f \in Feeds :
        (faults = 0 /\ restarts = 0 /\ AllAcknowledged(f)) =>
            redis[f].failed >= Cardinality(MissingPartRows(f))

\* C19: a row that fails on its own (no part_number, product not found, fetch
\* failed) does not abort its batch: when the per-row map is done the job is
\* still active, every row of the batch within the total has been reconciled,
\* and every such row that needs an update is among the payloads of the bulk
\* update that is still to be made.
RowOf(f, row) ==
    Reconcile(feedRows[f][row].item, feedRows[f][row].found, feedRows[f][row].fetchOk,
              remote[f][row], << f, row >>)
C19_RowFailureKeepsBatch ==
    \A w \in Workers :
        workers[w].pc \in { "bulk", "commit" } =>
            LET j == workers[w].job
                f == j[1]
                batch == queue[j].batch
            IN /\ queue[j].state = "active"
               /\ \A k \in 1..Len(batch) :
                     workers[w].lastProcessedRow + (k - 1) < queue[j].totalProductsInFile =>
                        /\ << f, batch[k] >> \in acted
                        /\ RowOf(f, batch[k]) = "update" =>
                              /\ workers[w].pc = "bulk"
                              /\ \E i \in 1..Len(workers[w].filteredProducts) :
                                    workers[w].filteredProducts[i].row = batch[k]
C19_Witness ==
    \E w \in Workers :
        /\ workers[w].pc = "bulk"
        /\ Len(workers[w].filteredProducts) = 1
        /\ LET j == workers[w].job
           IN /\ workers[w].lastProcessedRow + Len(queue[j].batch)
                    <= queue[j].totalProductsInFile
              /\ \E k \in 1..Len(queue[j].batch) :
                    RowOf(j[1], queue[j].batch[k]) = "fetch_failed"

\* C14: while every bulk update fails, a delivery of the job makes at most 5
\* bulk update attempts, and the job is failed for good after 5 deliveries.
C14_FiveAttemptsPerDelivery ==
    /\ \A w \in Workers :
          workers[w].pc = "bulk" =>
             workers[w].tries * MAX_RETRIES + workers[w].attempts < 5
    /\ \A j \in JobIds :
          (queue[j].state = "failed" /\ ValidJobData(queue[j], j[1])) =>
             queue[j].attemptsMade = 5

\* C15: when a job of a feed has failed for good, the failed counter of the
\* feed holds the number of rows of the failed jobs.
FailedJobs(f) ==
    { j \in JobIds : j[1] = f /\ queue[j].state = "failed" /\ ValidJobData(queue[j], f) }
FailedJobRows(f) ==
    UNION { { queue[j].batch[k] : k \in 1..Len(queue[j].batch) } : j \in FailedJobs(f) }
C15_FailedCountsBatchOnce ==
    \A f \in Feeds :
        FailedJobs(f) # {} => redis[f].failed = Cardinality(FailedJobRows(f))

\* C18: the handler is invoked once for a job without totalProductsInFile, and
\* the job is failed after that invocation.
C18_MalformedFailsWithoutRetry ==
    \A j \in JobIds :
        (queue[j].state # "none" /\ ~ValidJobData(queue[j], j[1])) =>
            /\ queue[j].attemptsMade <= 1
            /\ queue[j].attemptsMade = 1 => queue[j].state = "failed"

\* The errors the claim calls transient: 429, 502, 504, 524, ECONNRESET and
\* socket hang up.
TransientClass ==
    { << "E","C","O","N","N","R","E","S","E","T" >>, SocketHangUp,
      <<"4","2","9">>, <<"5","0","2">>, <<"5","0","4">>, <<"5","2","4">> }

IsTransient(message) == \E pattern \in TransientClass : Contains(message, pattern)

\* C21: the failure listener of the limiter returns the delay 1000 * 2^attempt
\* exactly when attempt < 5 and the error is transient (429, 502, 504, 524,
\* ECONNRESET, socket hang up); otherwise it returns no delay.
C21_FailurePolicy ==
    gate.failed # NoFailure =>
        gate.failed.returned =
            IF gate.failed.retryCount < 5 /\ IsTransient(gate.failed.message)
            THEN << 1000 * 2 ^ gate.failed.retryCount >>
            ELSE << >>

\* C22: the lookup by part number, the fetch by id and the bulk update all go
\* through the one limiter, and at most maxConcurrent (2) of them are in
\* flight at any time.
C22_AtMostTwoInFlight == Cardinality(Running) <= 2

C22_Witness ==
    /\ gate.jobs["getProductIdByPartNumber"].status = "executing"
    /\ gate.jobs["getProductById"].status = "executing"
    /\ gate.jobs["processBatch"].status = "queued"

\* C23 as stated: one call of schedule executes its task at most once.
C23_TaskRunsOnce == \A c \in GateCalls : gate.jobs[c].executions <= 1

\* C23, amended: one call of schedule executes its task once and once more
\* after each failure the listener answers with a delay, six times at most;
\* the promise is rejected only by a failure the listener answers with no
\* delay.
C23_TaskRunsAtMostSixTimes ==
    [][\A c \in GateCalls :
         /\ gate'.jobs[c].executions <= 6
         /\ gate'.jobs[c].executions > gate.jobs[c].executions =>
               gate.jobs[c].status \in { "queued", "retrying" }
         /\ gate.jobs[c].status # "retrying" /\ gate'.jobs[c].status = "retrying" =>
               gate'.failed.returned # << >>
         /\ gate.jobs[c].status # "rejected" /\ gate'.jobs[c].status = "rejected" =>
               gate'.failed.returned = << >>]_vars

C23_Witness ==
    \E c \in GateCalls :
        gate.jobs[c].status = "rejected" /\ gate.jobs[c].executions = GateRetryLimit + 1

\* The values of the claim's projections are equal after normalization.
SameNormalized(currentValue, newValue) ==
    normalizeText(currentValue) = normalizeText(newValue)

ProjectionsEqual(currentData, newData) ==
    /\ SameNormalized(currentData.sku, newData.sku)
    /\ SameNormalized(currentData.description, newData.description)
    /\ \A i \in 1..Len(newData.meta_data) :
          SameNormalized(FindMeta(currentData.meta_data, newData.meta_data[i].key).value,
                         newData.meta_data[i].value)

\* C24: isUpdateNeeded returns false if and only if sku, description and every
\* meta entry of the new data equal their counterparts of the current data
\* after normalizeText; id and part_number are not compared.
C24_FalseIffProjectionsEqual ==
    cmp.phase = "compared" =>
        (~cmp.isUpdateNeeded <=> ProjectionsEqual(cmp.currentData, cmp.newData))

\* C25 as stated: an entry of the new meta_data marks the row for update when
\* the current data has no entry with its key, whatever its value; when there
\* is one, exactly when the normalized values differ; nothing else of
\* meta_data marks the row.
C25_AbsentKeyIsDiff ==
    cmp.phase = "compared" =>
        /\ \A i \in 1..Len(cmp.newData.meta_data) :
              LET newMeta == cmp.newData.meta_data[i]
              IN << "meta_data", newMeta.key >> \in cmp.fieldsToUpdate <=>
                    IF HasMeta(cmp.currentData.meta_data, newMeta.key)
                    THEN ~SameNormalized(
                             FindMeta(cmp.currentData.meta_data, newMeta.key).value,
                             newMeta.value)
                    ELSE TRUE
        /\ \A field \in cmp.fieldsToUpdate :
              Len(field) = 2 =>
                 \E i \in 1..Len(cmp.newData.meta_data) :
                    cmp.newData.meta_data[i].key = field[2]

\* C25, amended: an entry of the new meta_data whose key the current data
\* lacks marks the row for update exactly when its value is a non-empty
\* string; one whose key the current data has, exactly when the normalized
\* values differ; nothing else of meta_data marks the row.
C25_AbsentKeyIsDiffWhenValued ==
    cmp.phase = "compared" =>
        /\ \A i \in 1..Len(cmp.newData.meta_data) :
              LET newMeta == cmp.newData.meta_data[i]
              IN << "meta_data", newMeta.key >> \in cmp.fieldsToUpdate <=>
                    IF HasMeta(cmp.currentData.meta_data, newMeta.key)
                    THEN ~SameNormalized(
                             FindMeta(cmp.currentData.meta_data, newMeta.key).value,
                             newMeta.value)
                    ELSE newMeta.value # Undefined /\ newMeta.value # <<>>
        /\ \A field \in cmp.fieldsToUpdate :
              Len(field) = 2 =>
                 \E i \in 1..Len(cmp.newData.meta_data) :
                    cmp.newData.meta_data[i].key = field[2]

\* A row whose spq is blank marks a product without spq, a row without spq does
\* not, and a series entry of the product alone is ignored.
C25_Witness ==
    /\ cmp.phase = "compared"
    /\ ~HasMeta(cmp.currentData.meta_data, "spq")
    /\ Field(cmp.item, "spq") = <<" ">>
    /\ << "meta_data", "spq" >> \in cmp.fieldsToUpdate
    /\ HasMeta(cmp.currentData.meta_data, "series") = FALSE
    /\ << "meta_data", "series" >> \notin cmp.fieldsToUpdate

\* C26: normalizeText applied to its own result returns that result.
C26_NormalizeIdempotent == text.phase = "twice" => text.twice = text.once

\* A string with a tag, leading white space and an entity has been
\* normalized twice.
C26_Witness ==
    /\ text.phase = "twice"
    /\ text.given = << "<", "b", ">", " " >> \o DegEntity
    /\ text.once = DegSign

EmittedKeys(newData) == { newData.meta_data[i].key : i \in 1..Len(newData.meta_data) }

\* C27: the keys of the meta_data built by createNewData are the keys that
\* filterCurrentData keeps, so an entry of the product with an emitted key is
\* part of the current data that is compared.
C27_SameMetaKeys ==
    cmp.phase = "compared" =>
        /\ EmittedKeys(cmp.newData) = CurrentDataKeys
        /\ \A i \in 1..Len(cmp.product.meta_data) :
              cmp.product.meta_data[i].key \in EmittedKeys(cmp.newData) =>
                 HasMeta(cmp.currentData.meta_data, cmp.product.meta_data[i].key)

C27_Witness ==
    /\ cmp.phase = "compared"
    /\ Field(cmp.item, "series") = <<"x">>
    /\ HasMeta(cmp.currentData.meta_data, "series")
    /\ HasMeta(cmp.product.meta_data, "_edit_lock")
    /\ ~HasMeta(cmp.currentData.meta_data, "_edit_lock")

\* C28: once the ingestor has handed a job of a feed to the queue, the stored
\* total-rows of the feed is the number of rows of the feed, and so is the
\* totalProductsInFile of every job handed over and of every job in the queue.
C28_TotalStoredBeforeJobs ==
    \A f \in Feeds :
        submitted[f] # <<>> =>
            /\ redis[f].total = Len(feedRows[f])
            /\ \A k \in 1..Len(submitted[f]) :
                  submitted[f][k].totalProductsInFile = Len(feedRows[f])
            /\ \A j \in JobIds :
                  j[1] = f /\ queue[j].state # "none" =>
                      queue[j].totalProductsInFile = Len(feedRows[f])

\* The ingest runs a second time over a feed of two rows and has handed over
\* the first job again while the second job of the first run is in the queue.
C28_Witness ==
    \E f \in Feeds :
        /\ Len(feedRows[f]) = 2
        /\ batchSize = 1
        /\ restarts = 1
        /\ Len(submitted[f]) = 1
        /\ ingest[f].pc = "rows"
        /\ queue[<< f, 2 >>].state # "none"

C30_ExitsDrained ==
    exited =>
        /\ \A j \in JobIds : queue[j].state # "active"
        /\ \A w \in Workers : workers[w].pc = "idle"

\* C31: the run over the one-row feed, without failed calls and restarts,
\* ends with one bulk update of one payload for the id the lookup returned,
\* with the sku of the row, the empty string as description and 16 meta
\* entries with empty values, and with updated = 1, skipped = 0, failed = 0,
\* total = 1 and the checkpoint at row 1.
C31_HappyPath ==
    exited /\ faults = 0 /\ restarts = 0 =>
        /\ Cardinality(bulkLog) = 1
        /\ \A sent \in bulkLog :
              /\ sent.newData.id = << "f1", 1 >>
              /\ sent.newData.sku = SkuNew
              /\ sent.newData.description = <<>>
              /\ Len(sent.newData.meta_data) = 16
              /\ \A i \in 1..Len(sent.newData.meta_data) :
                    sent.newData.meta_data[i].value = <<>>
        /\ redis["f1"] = [ total |-> 1, updated |-> 1, skipped |-> 0, failed |-> 0,
                           lastProcessedRow |-> 1 ]
        /\ checkpointFile["f1"] = 1

\* The calendar date of a folder name as << year, month, day >>.
FolderDate(prefix) ==
    << 100 * TwoDigits(prefix, 7) + TwoDigits(prefix, 9), TwoDigits(prefix, 1),
       TwoDigits(prefix, 4) >>

NotLater(a, b) ==
    \/ a[1] < b[1]
    \/ a[1] = b[1] /\ a[2] < b[2]
    \/ a[1] = b[1] /\ a[2] = b[2] /\ a[3] <= b[3]

Matching(executionMode, prefixes) ==
    { prefixes[i] : i \in { k \in 1..Len(prefixes) :
                              PatternTest(executionMode, prefixes[k]) } }

\* C32: the folder chosen is, among the prefixes that match the pattern of the
\* mode, the one with the latest date, and none when no prefix matches; the
\* files taken are the keys of that folder that end in .csv in any case.
C32_LatestFolderAndCsvOnly ==
    discovery.phase \in { "tasks", "returned" } =>
        LET matching == Matching(discovery.executionMode, discovery.bucket.prefixes)
        IN /\ matching = {} <=> discovery.latestFolder = Null
           /\ matching # {} =>
                 /\ discovery.latestFolder \in matching
                 /\ \A other \in matching :
                       NotLater(FolderDate(other), FolderDate(discovery.latestFolder))
           /\ \A key \in BucketKeys(discovery.bucket) :
                 key \in DOMAIN discovery.tasks <=>
                    /\ discovery.latestFolder # Null
                    /\ IsPrefix(discovery.latestFolder, key)
                    /\ SubSeq(key, Len(key) - 3, Len(key)) \in
                          { << ".", x, y, z >> : x \in { "c", "C" }, y \in { "s", "S" },
                                                 z \in { "v", "V" } }

\* A folder of January 2025 is chosen over one of December 2024, and of its
\* objects a.csv and B.CSV are taken and a.txt is not.
C32_Witness ==
    /\ discovery.phase = "tasks"
    /\ discovery.executionMode = "production"
    /\ Len(discovery.bucket.prefixes) = 3
    /\ discovery.latestFolder = AllPrefixes[1]
    /\ AllPrefixes[6] \in Matching("production", discovery.bucket.prefixes)
    /\ Cardinality(DOMAIN discovery.tasks) = 2
    /\ Cardinality(discovery.bucket.files) = 4

\* C33: when processCSVFilesInLatestFolder has returned, every file of the
\* folder whose ingest did not throw has enqueued all its batches, whatever
\* happened to the other files; and it returns once all files have ended.
C33_FeedsIndependent ==
    /\ discovery.phase = "returned" =>
          \A key \in DOMAIN discovery.tasks :
              \/ discovery.tasks[key].status = "failed"
              \/ /\ discovery.tasks[key].status = "done"
                 /\ discovery.tasks[key].enqueued = FileBatches
    /\ discovery.phase = "tasks" /\ PromiseAll(discovery.tasks) => ENABLED DiscoveryReturns

C33_Witness ==
    /\ discovery.phase = "returned"
    /\ \E a, b \in DOMAIN discovery.tasks :
          /\ discovery.tasks[a].status = "failed"
          /\ discovery.tasks[a].enqueued = 0
          /\ discovery.tasks[b].status = "done"

\* C34: when the ingest of a feed has ended without reporting a failure, every
\* batch it handed to addBatchJob has a job created in the queue.
C34_NoBatchLost ==
    \A f \in Feeds :
        ingest[f].pc = "done" =>
            \A i \in 1..Len(submitted[f]) :
                created[JobIdOf(f, submitted[f][i].lastProcessedRow)] > 0

\* C35: when a worker is about to reconcile its batch, the index processBatch
\* computes for the i-th row (the start index it was given plus i - 1) is the
\* index of that row in the feed, and no row of the batch falls under the
\* guard on the total of the feed.
C35_EveryRowReconciled ==
    \A w \in Workers :
        workers[w].pc = "rows" =>
            LET f == workers[w].job[1]
                job == queue[workers[w].job]
            IN \A i \in 1..Len(job.batch) :
                  /\ workers[w].lastProcessedRow + (i - 1) = job.batch[i] - 1
                  /\ RowOutcome(f, job.batch[i], workers[w].lastProcessedRow + (i - 1),
                                job.totalProductsInFile) # "beyond_total"

\* C36: the entry of every feed in the checkpoint file is the value of the
\* latest commit for that feed, whatever other feeds committed since.
C36_OnlyOwnEntryChanges ==
    ckpt.phase = "run" => \A f \in CkptFeeds : ckpt.file[f] = ckpt.committed[f]

\* C37: two workers that are in the bulk update loop at the same time
\* schedule their products/batch calls under different task ids.
C37_DistinctTaskIds ==
    \A w1, w2 \in Workers :
        w1 # w2 /\ workers[w1].pc = "bulk" /\ workers[w2].pc = "bulk" =>
            BulkTaskId(w1) # BulkTaskId(w2)

\* The rows of a batch whose outcome is update, in the order of the batch.
UpdateRows(fileKey, batch, startIndex, totalProductsInFile) ==
    SelectSeq(batch,
              LAMBDA row :
                  RowOutcome(fileKey, row,
                             startIndex + (CHOOSE i \in 1..Len(batch) : batch[i] = row) - 1,
                             totalProductsInFile) = "update")

\* C38: when processBatch has reconciled the rows of a batch, the payload list
\* of the bulk update holds one payload for each row whose outcome is update
\* and no other, in the order of the rows in the batch, each with the product
\* id the lookup of its row returned.
C38_PayloadIsUpdateRowsInOrder ==
    [][ \A w \in Workers :
          workers[w].pc = "rows" /\ workers'[w].pc \in { "bulk", "commit" } =>
              LET f == workers[w].job[1]
                  job == queue[workers[w].job]
                  rows == UpdateRows(f, job.batch, workers[w].lastProcessedRow,
                                     job.totalProductsInFile)
                  payloads == workers'[w].filteredProducts
              IN /\ Len(payloads) = Len(rows)
                 /\ \A k \in 1..Len(rows) :
                       /\ payloads[k].row = rows[k]
                       /\ payloads[k].newData.id = << f, rows[k] >> ]_vars

\* A batch of two rows that both need an update is in the bulk update loop.
C38_Witness ==
    \E w \in Workers :
        /\ workers[w].pc = "bulk"
        /\ Len(workers[w].filteredProducts) = 2

\* C39: whenever a handler commits a job, the redis key lastProcessedRow of
\* the feed and the lastProcessedRow of the feed in the checkpoint file hold
\* the same row afterwards.
C39_RedisEqualsFile ==
    [][ \A w \in Workers :
          workers[w].pc = "commit" /\ queue'[workers[w].job] = NoJob =>
              LET f == workers[w].job[1]
              IN redis'[f].lastProcessedRow = checkpointFile'[f] ]_vars

\* C40: the lastProcessedRow of every entry of the checkpoint file is at least
\* 0 and at most the total of the feed, and a call of saveCheckpoint with an
\* empty or missing batch leaves the file as it was.
C40_RangeAndEmptyBatch ==
    [][ /\ \A f \in CkptFeeds : ckpt'.file[f] >= 0 /\ ckpt'.file[f] <= CkptTotal
        /\ (\E h \in Workers, fileKey \in CkptFeeds,
               lastProcessedRow \in 0..(CkptTotal + 1) :
               SaveCheckpointCall(h, fileKey, lastProcessedRow, 0))
              => ckpt'.file = ckpt.file ]_vars

\* The entry of a feed has reached the total by a call that went beyond it,
\* another entry is in between, and the last call had an empty batch.
C40_Witness ==
    /\ ckpt.phase = "run"
    /\ ckpt.returned = "invalid batch"
    /\ ckpt.file["feedA"] = CkptTotal
    /\ ckpt.file["feedB"] = 1

====
